---- MODULE Spec2Model ----
(***************************************************************************)
(* A model of the LLVM-MCA analysis command of the code.simd extension:    *)
(* the CPU catalog (generateCpuConfigs), host detection (getHostArch), the *)
(* host compatibility rule (isCompatibleTarget), the analysis pipeline     *)
(* (analyzeMca) and the command that drives them (registerLlvmMcaCommand). *)
(*                                                                         *)
(* Strings the code searches with includes() or trims are modelled as      *)
(* sequences of one-character strings, so that includes() and trim() are   *)
(* computed, not assumed; every other string is a TLA+ string.  An         *)
(* optional property that is absent from a JavaScript object is a field    *)
(* absent from the record's DOMAIN.                                        *)
(***************************************************************************)
EXTENDS Integers, Sequences, FiniteSets, TLC

VARIABLES
    genPc,        \* generateCpuConfigs: the loop it is in, "loaded" once CPU_CONFIGS is assigned
    genIdx,       \* generateCpuConfigs: position of the running loop in its cpu list
    configs,      \* generateCpuConfigs: the local object being filled
    CPU_CONFIGS,  \* the module-level catalog (assigned once, from generateCpuConfigs())
    req,          \* per request: the locals of the command handler and of analyzeMca
    fs,           \* the temporary directories that exist: name -> [owner, files]
    log,          \* per request: the file-system calls and process spawns made and the
                  \* clicks handled in its results view, in order
    intrinsics,        \* intrinsicsCache: the module-level list, null until a call stored one
    cachedIntrinsics,  \* simdAi: the module-level list of fetchIntrinsicNames, null until set
    call               \* per call of getIntrinsics: where it is and what it awaits

vars == <<genPc, genIdx, configs, CPU_CONFIGS, req, fs, log, intrinsics, cachedIntrinsics, call>>

\* The variables of the analysis command and those of the intrinsic-name
\* cache.
mcaVars == <<genPc, genIdx, configs, CPU_CONFIGS, req, fs, log>>
cacheVars == <<intrinsics, cachedIntrinsics, call>>

----------------------------------------------------------------------------
(* Bounds of the model. *)

\* Number of analyzeMca calls in flight at once.
MaxReqs == 2
\* A host architecture string is a concatenation of at most this many fragments.
MaxHostParts == 1
\* Length of a selected source text, in characters.
MaxTextLen == 1
\* Number of lines of the summary view of a simulator report.
MaxSummaryLines == 3
\* Number of lines under the header of the instruction table of a report.
MaxRows == 3
\* Number of clicks handled in one results view.
MaxClicks == 3
\* Number of calls of getIntrinsics in a session.
MaxCalls == 3

----------------------------------------------------------------------------
(* Character strings. *)

Whitespace == {" ", "\t", "\n"}

\* String.prototype.includes
Includes(s, sub) ==
    \E i \in 1..(Len(s) - Len(sub) + 1) : SubSeq(s, i, i + Len(sub) - 1) = sub

RECURSIVE TrimStart(_)
TrimStart(s) ==
    IF s # <<>> /\ Head(s) \in Whitespace THEN TrimStart(Tail(s)) ELSE s

RECURSIVE TrimEnd(_)
TrimEnd(s) ==
    IF s # <<>> /\ s[Len(s)] \in Whitespace THEN TrimEnd(SubSeq(s, 1, Len(s) - 1)) ELSE s

\* String.prototype.trim
Trim(s) == TrimEnd(TrimStart(s))

S_x86_64  == <<"x", "8", "6", "_", "6", "4">>
S_amd64   == <<"a", "m", "d", "6", "4">>
S_aarch64 == <<"a", "a", "r", "c", "h", "6", "4">>
S_arm64   == <<"a", "r", "m", "6", "4">>
S_ppc64   == <<"p", "p", "c", "6", "4">>
S_powerpc == <<"p", "o", "w", "e", "r", "p", "c">>
S_linux_gnu == <<"-", "l", "i", "n", "u", "x", "-", "g", "n", "u">>

\* 'aarch64-linux-gnu'
TargetArm == S_aarch64 \o S_linux_gnu
\* 'powerpc64le-linux-gnu'
TargetPower == S_powerpc \o <<"6", "4", "l", "e">> \o S_linux_gnu

----------------------------------------------------------------------------
(* The CPU tables, in source order (Object.entries iterates in insertion   *)
(* order).                                                                 *)

X86_CPUS == <<
    [category |-> "AVX512", cpus |-> <<
        "cascadelake", "cannonlake", "cooperlake", "icelake-server", "icelake-client",
        "tigerlake", "rocketlake", "sapphirerapids", "emeraldrapids", "graniterapids",
        "graniterapids-d", "diamondrapids", "znver4", "znver5", "znver6" >>],
    [category |-> "AVX2", cpus |-> <<
        "haswell", "core-avx2", "broadwell", "skylake", "alderlake", "raptorlake",
        "meteorlake", "gracemont", "arrowlake", "arrowlake-s", "lunarlake",
        "pantherlake", "wildcatlake", "novalake", "sierraforest", "grandridge",
        "clearwaterforest", "bdver4", "znver1", "znver2", "znver3" >>],
    [category |-> "AVX", cpus |-> <<
        "sandybridge", "corei7-avx", "ivybridge", "core-avx-i", "bdver1",
        "bdver2", "bdver3", "lujiazui" >>],
    [category |-> "SSE", cpus |-> <<
        "x86-64", "x86-64-v2", "x86-64-v3", "x86-64-v4", "pentium3m", "pentium-m",
        "pentium4", "pentium4m", "prescott", "nocona", "core2", "nehalem",
        "corei7", "westmere", "bonnell", "atom", "silvermont", "slm", "goldmont",
        "goldmont-plus", "tremont", "athlon", "athlon-tbird", "athlon-4",
        "athlon-xp", "athlon-mp", "k8", "opteron", "athlon64", "athlon-fx",
        "k8-sse3", "opteron-sse3", "athlon64-sse3", "amdfam10", "barcelona",
        "btver1", "btver2", "c3-2", "c7", "nehemiah", "esther", "eden-x2",
        "nano", "nano-1000", "nano-2000", "nano-3000", "nano-x2", "nano-x4" >>] >>

ARM_CPUS == <<
    [category |-> "A32", cpus |-> << "cortex-a17", "cortex-a53" >>],
    [category |-> "A64", cpus |-> <<
        "cortex-a55", "cortex-a72", "cortex-a73", "cortex-a75", "cortex-a76",
        "cortex-a77", "cortex-a78", "cortex-x1", "cortex-x2", "cortex-x3",
        "cortex-a710", "cortex-a715", "neoverse-n1", "neoverse-n2",
        "neoverse-v1", "neoverse-v2", "ampere1", "ampere1a", "ampere1b" >>],
    [category |-> "v7", cpus |-> << "cortex-a9", "cortex-a15" >>] >>

POWER_CPUS == << "pwr8", "pwr9", "pwr10" >>

\* The (category, cpu) pairs a table's nested loops visit, in order:
\* for (const [category, cpus] of Object.entries(T)) for (const cpu of cpus).
RECURSIVE Flatten(_)
Flatten(table) ==
    IF table = <<>> THEN <<>>
    ELSE [i \in 1..Len(Head(table).cpus) |->
             [category |-> Head(table).category, cpu |-> Head(table).cpus[i]]]
         \o Flatten(Tail(table))

X86List == Flatten(X86_CPUS)
ArmList == Flatten(ARM_CPUS)

----------------------------------------------------------------------------
(* generateCpuConfigs, one assignment to configs[...] per step.            *)

\* configs[key] = value on a plain object: adds the key or overwrites it.
Assign(obj, key, value) ==
    (key :> value) @@ obj

NativeConfig ==
    [label |-> "Native (Auto-detect)", category |-> "Native", useNative |-> TRUE]

X86Config(category, cpu) ==
    [label |-> cpu, category |-> "x86-64 " \o category, march |-> cpu, mcpu |-> cpu]

ArmConfig(category, cpu) ==
    [label |-> cpu, category |-> "ARM " \o category, target |-> TargetArm, mcpu |-> cpu]

\* The PowerPC entry without its cpu identifier.
PowerConfigNoCpu(cpu) ==
    [label |-> cpu, category |-> "PowerPC", target |-> TargetPower]

PowerConfig(cpu) ==
    [label |-> cpu, category |-> "PowerPC", target |-> TargetPower, mcpu |-> cpu]

\* The key written without interpolating the cpu name.
X86KeyLiteral(cpu) == "x86-${cpu}"

X86Key(cpu) == "x86-" \o cpu
ArmKey(cpu) == "arm-" \o cpu
PowerKey(cpu) == "power-" \o cpu

\* The empty object {} (no own keys).
EmptyObject == [k \in {} |-> NativeConfig]

GenNative ==
    /\ genPc = "native"
    /\ configs' = Assign(configs, "native", NativeConfig)
    /\ genPc' = "x86"
    /\ UNCHANGED <<genIdx, CPU_CONFIGS, req, fs, log>>
    /\ UNCHANGED cacheVars

GenX86 ==
    /\ genPc = "x86"
    /\ LET e == X86List[genIdx]
       IN  configs' = Assign(configs, X86Key(e.cpu), X86Config(e.category, e.cpu))
    /\ IF genIdx < Len(X86List)
       THEN genIdx' = genIdx + 1 /\ UNCHANGED genPc
       ELSE genIdx' = 1 /\ genPc' = "arm"
    /\ UNCHANGED <<CPU_CONFIGS, req, fs, log>>
    /\ UNCHANGED cacheVars

GenArm ==
    /\ genPc = "arm"
    /\ LET e == ArmList[genIdx]
       IN  configs' = Assign(configs, ArmKey(e.cpu), ArmConfig(e.category, e.cpu))
    /\ IF genIdx < Len(ArmList)
       THEN genIdx' = genIdx + 1 /\ UNCHANGED genPc
       ELSE genIdx' = 1 /\ genPc' = "power"
    /\ UNCHANGED <<CPU_CONFIGS, req, fs, log>>
    /\ UNCHANGED cacheVars

GenPower ==
    /\ genPc = "power"
    /\ configs' = Assign(configs, PowerKey(POWER_CPUS[genIdx]), PowerConfig(POWER_CPUS[genIdx]))
    /\ IF genIdx < Len(POWER_CPUS)
       THEN genIdx' = genIdx + 1 /\ UNCHANGED genPc
       ELSE genIdx' = 1 /\ genPc' = "return"
    /\ UNCHANGED <<CPU_CONFIGS, req, fs, log>>
    /\ UNCHANGED cacheVars

\* const CPU_CONFIGS = generateCpuConfigs(); the local goes out of scope.
GenReturn ==
    /\ genPc = "return"
    /\ CPU_CONFIGS' = configs
    /\ configs' = EmptyObject
    /\ genPc' = "loaded"
    /\ UNCHANGED <<genIdx, req, fs, log>>
    /\ UNCHANGED cacheVars

\* generateCpuConfigs run to completion: each key holds the value of the
\* last assignment made to it, and a later loop overwrites an earlier one.
LastOf(keys, values, k) ==
    LET i == CHOOSE i \in DOMAIN keys :
                 keys[i] = k /\ \A j \in DOMAIN keys : j > i => keys[j] # k
    IN  values[i]

Filled(keys, values) ==
    [k \in { keys[i] : i \in DOMAIN keys } |-> LastOf(keys, values, k)]

BuiltCatalog ==
    LET x86 == Filled([i \in DOMAIN X86List |-> X86Key(X86List[i].cpu)],
                      [i \in DOMAIN X86List |-> X86Config(X86List[i].category, X86List[i].cpu)])
        arm == Filled([i \in DOMAIN ArmList |-> ArmKey(ArmList[i].cpu)],
                      [i \in DOMAIN ArmList |-> ArmConfig(ArmList[i].category, ArmList[i].cpu)])
        pwr == Filled([i \in DOMAIN POWER_CPUS |-> PowerKey(POWER_CPUS[i])],
                      [i \in DOMAIN POWER_CPUS |-> PowerConfig(POWER_CPUS[i])])
    IN  pwr @@ arm @@ x86 @@ ("native" :> NativeConfig)

----------------------------------------------------------------------------
(* Property lookup and truthiness on JavaScript objects.                   *)

\* The value undefined.
Undefined == [undefined |-> TRUE]

\* Property names every plain object inherits from Object.prototype, and
\* the (truthy) inherited member such a name resolves to; it has none of
\* the CpuConfig properties.
ObjectPrototypeKeys == {"constructor", "toString", "__proto__"}
InheritedMember == [inherited |-> TRUE]

\* obj[key] on an object created by {}: own keys first, then the prototype.
Get(obj, key) ==
    IF key \in DOMAIN obj THEN obj[key]
    ELSE IF key \in ObjectPrototypeKeys THEN InheritedMember
    ELSE Undefined

\* The truthiness of an optional property: present and not the empty
\* string (target, a character sequence; march and mcpu, names) or true.
Has(c, f) == f \in DOMAIN c
TruthyStr(c, f) == Has(c, f) /\ c[f] # <<>>
TruthyName(c, f) == Has(c, f) /\ c[f] # ""
TruthyFlag(c, f) == Has(c, f) /\ c[f] = TRUE

----------------------------------------------------------------------------
(* isCompatibleTarget                                                      *)

\* The rule with the x86 branch accepting every target.
isCompatibleTargetX86All(hostArch, targetConfig) ==
    IF TruthyFlag(targetConfig, "useNative") THEN TRUE
    ELSE IF Includes(hostArch, S_x86_64) \/ Includes(hostArch, S_amd64)
    THEN TRUE
    ELSE IF Includes(hostArch, S_aarch64) \/ Includes(hostArch, S_arm64)
    THEN ~TruthyStr(targetConfig, "target") \/ Includes(targetConfig.target, S_aarch64)
    ELSE IF Includes(hostArch, S_ppc64) \/ Includes(hostArch, S_powerpc)
    THEN ~TruthyStr(targetConfig, "target") \/ Includes(targetConfig.target, S_powerpc)
    ELSE ~TruthyStr(targetConfig, "target")

\* The rule with the final fallback accepting every target.
isCompatibleTargetOpenDefault(hostArch, targetConfig) ==
    IF TruthyFlag(targetConfig, "useNative") THEN TRUE
    ELSE IF Includes(hostArch, S_x86_64) \/ Includes(hostArch, S_amd64)
    THEN ~TruthyStr(targetConfig, "target") \/ targetConfig.target = <<>>
    ELSE IF Includes(hostArch, S_aarch64) \/ Includes(hostArch, S_arm64)
    THEN ~TruthyStr(targetConfig, "target") \/ Includes(targetConfig.target, S_aarch64)
    ELSE IF Includes(hostArch, S_ppc64) \/ Includes(hostArch, S_powerpc)
    THEN ~TruthyStr(targetConfig, "target") \/ Includes(targetConfig.target, S_powerpc)
    ELSE TRUE

isCompatibleTarget(hostArch, targetConfig) ==
    IF TruthyFlag(targetConfig, "useNative") THEN TRUE
    ELSE IF Includes(hostArch, S_x86_64) \/ Includes(hostArch, S_amd64)
    THEN ~TruthyStr(targetConfig, "target") \/ targetConfig.target = <<>>
    ELSE IF Includes(hostArch, S_aarch64) \/ Includes(hostArch, S_arm64)
    THEN ~TruthyStr(targetConfig, "target") \/ Includes(targetConfig.target, S_aarch64)
    ELSE IF Includes(hostArch, S_ppc64) \/ Includes(hostArch, S_powerpc)
    THEN ~TruthyStr(targetConfig, "target") \/ Includes(targetConfig.target, S_powerpc)
    ELSE ~TruthyStr(targetConfig, "target")

\* Object.entries(CPU_CONFIGS).filter(isCompatibleTarget).map(key): the keys
\* offered.  The handler sorts the items for display before showing them;
\* the pick returns one item, so the keys are kept as a set.
CompatibleKeys(hostArch) ==
    { k \in DOMAIN CPU_CONFIGS : isCompatibleTarget(hostArch, CPU_CONFIGS[k]) }

----------------------------------------------------------------------------
(* Inputs.                                                                 *)

Reqs == 1..MaxReqs

\* Selected source texts: blanks and one non-blank character.
Texts == UNION { [1..n -> {" ", "v"}] : n \in 0..MaxTextLen }

\* What `uname -m` may print and os.arch() may return: concatenations of
\* architecture-name fragments.
HostFragments ==
    { S_x86_64, S_amd64, S_aarch64, S_arm64, S_ppc64, S_powerpc,
      <<"l", "e">>, <<"r", "i", "s", "c", "v", "6", "4">> }

RECURSIVE Concat(_)
Concat(parts) == IF parts = <<>> THEN <<>> ELSE Head(parts) \o Concat(Tail(parts))

HostArchs == { Concat(p) : p \in UNION { [1..n -> HostFragments] : n \in 1..MaxHostParts } }

\* os.arch() of Node.js: 'x64', 'arm64', 'ppc64', 'riscv64' among others.
OsArchs ==
    { <<"x", "6", "4">>, S_arm64, S_ppc64, <<"r", "i", "s", "c", "v", "6", "4">> }

\* os.platform()
Platforms == {"darwin", "linux", "win32"}

----------------------------------------------------------------------------
(* The report parser of analyzeMca: the regular expressions applied to the  *)
(* simulator's stdout, computed on sequences of characters.                 *)

Digits == {"0", "1", "2", "3", "4", "5", "6", "7", "8", "9"}

\* The class [\d.]
DigitsDot == Digits \cup {"."}

\* The literals of the regular expressions.
S_TotalCycles == <<"T", "o", "t", "a", "l", " ", "C", "y", "c", "l", "e", "s", ":">>
S_BlockRThroughput == <<"B", "l", "o", "c", "k", " ", "R", "T", "h", "r", "o", "u", "g", "h", "p", "u", "t", ":">>
S_InstructionInfo == <<"I", "n", "s", "t", "r", "u", "c", "t", "i", "o", "n", " ", "I", "n", "f", "o", ":">>
S_Columns == <<"[", "1", "]", " ", " ", " ", " ", "[", "2", "]", " ", " ", " ", " ", "[", "3", "]">>
S_Resources == <<"\n", "\n", "R", "e", "s", "o", "u", "r", "c", "e", "s", ":">>
S_NA == <<"N", "/", "A">>

\* A regular expression that did not match (String.prototype.match
\* returned null).
NoMatch == [matched |-> FALSE]

\* The position of the leftmost occurrence of the literal sub in s at or
\* after position from; 0 when there is none.
IndexOf(s, sub, from) ==
    LET hits == { i \in from..(Len(s) - Len(sub) + 1) :
                      s[i] = sub[1] /\ SubSeq(s, i, i + Len(sub) - 1) = sub }
    IN  IF hits = {} THEN 0 ELSE CHOOSE i \in hits : \A j \in hits : i <= j

\* The number of characters a greedy quantifier over a character class
\* takes at position i.
Run(s, i, class) ==
    LET stops == { j \in i..(Len(s) + 1) : j = Len(s) + 1 \/ s[j] \notin class }
    IN  (CHOOSE j \in stops : \A e \in stops : j <= e) - i

\* A variant that matches the rightmost field instead.
MatchFieldLast(stdout, label, class) ==
    LET after(i) == i + Len(label)
        value(i) == after(i) + Run(stdout, after(i), Whitespace)
        starts == { i \in 1..(Len(stdout) - Len(label) + 1) :
                      /\ stdout[i] = label[1]
                      /\ SubSeq(stdout, i, after(i) - 1) = label
                      /\ Run(stdout, after(i), Whitespace) >= 1
                      /\ Run(stdout, value(i), class) >= 1 }
        last == CHOOSE i \in starts : \A j \in starts : j <= i
    IN  IF starts = {}
        THEN NoMatch
        ELSE [matched |-> TRUE,
              m1 |-> SubSeq(stdout, value(last),
                            value(last) + Run(stdout, value(last), class) - 1)]

\* stdout.match(/<label>\s+(<class>+)/): the leftmost position at which the
\* label is followed by whitespace and then by a character of the class;
\* the group is the whole run of the class.
MatchField(stdout, label, class) ==
    LET after(i) == i + Len(label)
        value(i) == after(i) + Run(stdout, after(i), Whitespace)
        starts == { i \in 1..(Len(stdout) - Len(label) + 1) :
                      /\ stdout[i] = label[1]
                      /\ SubSeq(stdout, i, after(i) - 1) = label
                      /\ Run(stdout, after(i), Whitespace) >= 1
                      /\ Run(stdout, value(i), class) >= 1 }
        first == CHOOSE i \in starts : \A j \in starts : i <= j
    IN  IF starts = {}
        THEN NoMatch
        ELSE [matched |-> TRUE,
              m1 |-> SubSeq(stdout, value(first),
                            value(first) + Run(stdout, value(first), class) - 1)]

\* A variant that reports a missing field as 0.
LatencyOrZero(stdout) ==
    LET latencyMatch == MatchField(stdout, S_TotalCycles, Digits)
    IN  IF latencyMatch.matched THEN latencyMatch.m1 ELSE <<"0">>

\* const latency = latencyMatch ? latencyMatch[1] : 'N/A', and the same
\* for throughput.
Latency(stdout) ==
    LET latencyMatch == MatchField(stdout, S_TotalCycles, Digits)
    IN  IF latencyMatch.matched THEN latencyMatch.m1 ELSE S_NA

Throughput(stdout) ==
    LET throughputMatch == MatchField(stdout, S_BlockRThroughput, DigitsDot)
    IN  IF throughputMatch.matched THEN throughputMatch.m1 ELSE S_NA

\* stdout.match(/Instruction Info:[\s\S]*?\[1\]    \[2\]    \[3\].*?\n
\*               ([\s\S]*?)(?=\n\nResources:|$)/): the leftmost 'Instruction
\* Info:', the first column header after it, the first newline after the
\* header; the group runs from there to the first '\n\nResources:' or, when
\* there is none, to the end of the text.
InstrInfoMatch(stdout) ==
    LET info == IndexOf(stdout, S_InstructionInfo, 1)
        cols == IF info = 0 THEN 0
                ELSE IndexOf(stdout, S_Columns, info + Len(S_InstructionInfo))
        nl   == IF cols = 0 THEN 0
                ELSE IndexOf(stdout, <<"\n">>, cols + Len(S_Columns))
        stop == IF nl = 0 THEN 0 ELSE IndexOf(stdout, S_Resources, nl + 1)
    IN  IF nl = 0
        THEN NoMatch
        ELSE [matched |-> TRUE,
              m1 |-> SubSeq(stdout, nl + 1, IF stop = 0 THEN Len(stdout) ELSE stop - 1)]

\* String.prototype.split('\n'): the pieces between the newlines, one more
\* than there are newlines.
Split(s) ==
    LET nls == { i \in 1..Len(s) : s[i] = "\n" }
        nth(k) == IF k = 0 THEN 0
                  ELSE IF k > Cardinality(nls) THEN Len(s) + 1
                  ELSE CHOOSE i \in nls : Cardinality({ j \in nls : j < i }) = k - 1
    IN  [k \in 1..(Cardinality(nls) + 1) |-> SubSeq(s, nth(k - 1) + 1, nth(k) - 1)]

\* line.match(/^\s*(\d+)\s+(\d+)\s+([\d.]+)\s+.*?\s{2,}(.+)$/).  The three
\* numeric groups and the whitespace between them can match in one way
\* only.  After the third group the matcher backtracks: \s+ gives up as few
\* characters as it must, .*? takes as few as it can, \s{2,} as many as it
\* can while leaving a character for (.+), which takes the rest of the line.

\* Where \s{2,} can start after position t: two whitespace characters and
\* one more character after them.
Gaps(line, t) ==
    { p \in (t + 1)..(Len(line) - 2) : line[p] \in Whitespace /\ line[p + 1] \in Whitespace }

\* The number of characters \s+ keeps at position t: the most that leave a
\* gap after them; 0 when the rest of the expression cannot match.
Kept(line, t) ==
    LET ks == { k \in 1..Run(line, t, Whitespace) : \E p \in Gaps(line, t) : p >= t + k }
    IN  IF ks = {} THEN 0 ELSE CHOOSE k \in ks : \A y \in ks : y <= k

\* The group (.+) when \s{2,} starts at position p.
Group4(line, p) ==
    SubSeq(line,
           IF p + Run(line, p, Whitespace) > Len(line)
           THEN Len(line)
           ELSE p + Run(line, p, Whitespace),
           Len(line))

\* The rest of the match from position t, after the third group, with \s+
\* keeping k characters: .*? ends at the first gap.
RowRest(line, t, k) ==
    Group4(line, CHOOSE p \in Gaps(line, t) :
                     p >= t + k /\ \A q \in Gaps(line, t) : q >= t + k => p <= q)

\* The positions after \s*, (\d+), \s+, (\d+), \s+ and ([\d.]+), each
\* quantifier taking the whole run of its class: at holds the positions
\* found so far, classes the classes still to match.
RECURSIVE Columns(_, _, _)
Columns(line, classes, at) ==
    IF classes = <<>>
    THEN at
    ELSE Columns(line, Tail(classes),
                 Append(at, at[Len(at)] + Run(line, at[Len(at)], Head(classes))))

RowMatch(line) ==
    LET at == Columns(line, <<Whitespace, Digits, Whitespace, Digits, Whitespace, DigitsDot>>,
                      <<1>>)
        k  == Kept(line, at[7])
    IN  IF (\A n \in 3..7 : at[n] > at[n - 1]) /\ k >= 1
        THEN [matched |-> TRUE,
              m1 |-> SubSeq(line, at[2], at[3] - 1),
              m2 |-> SubSeq(line, at[4], at[5] - 1),
              m3 |-> SubSeq(line, at[6], at[7] - 1),
              m4 |-> RowRest(line, at[7], k)]
        ELSE NoMatch

\* A variant of the loop that counts every line.
RECURSIVE ForLinesCounted(_, _, _, _)
ForLinesCounted(lines, i, order, instructions) ==
    IF i > Len(lines)
    THEN instructions
    ELSE LET match == RowMatch(lines[i])
         IN  IF match.matched
             THEN ForLinesCounted(lines, i + 1, order + 1,
                                  Append(instructions,
                                         [order |-> order, uops |-> match.m1,
                                          latency |-> match.m2, throughput |-> match.m3,
                                          instruction |-> Trim(match.m4)]))
             ELSE ForLinesCounted(lines, i + 1, order + 1, instructions)

\* for (const line of lines) { ... if (match) instructions.push({order:
\* order++, ...}) }: the loop from line i on, with the counter and the
\* records pushed so far.
RECURSIVE ForLines(_, _, _, _)
ForLines(lines, i, order, instructions) ==
    IF i > Len(lines)
    THEN instructions
    ELSE LET match == RowMatch(lines[i])
         IN  IF match.matched
             THEN ForLines(lines, i + 1, order + 1,
                           Append(instructions,
                                  [order |-> order, uops |-> match.m1,
                                   latency |-> match.m2, throughput |-> match.m3,
                                   instruction |-> Trim(match.m4)]))
             ELSE ForLines(lines, i + 1, order, instructions)

\* const instructions = []; if (instrInfoMatch) { const lines =
\* instrInfoMatch[1].trim().split('\n'); let order = 1; for ... }
Instructions(stdout) ==
    LET instrInfoMatch == InstrInfoMatch(stdout)
    IN  IF instrInfoMatch.matched
        THEN ForLines(Split(Trim(instrInfoMatch.m1)), 1, 1, <<>>)
        ELSE <<>>

----------------------------------------------------------------------------
(* The simulator's reports: what llvm-mca prints for an assembly file.      *)

RECURSIVE JoinLines(_)
\* The lines of a text, each ended by a newline.
JoinLines(lines) ==
    IF lines = <<>> THEN <<>> ELSE Head(lines) \o <<"\n">> \o JoinLines(Tail(lines))

\* Lines of the summary view.  A field line is a label, a gap and a value:
\* the two fields analyzeMca reads, each with a narrow and a wide gap and
\* one of them with the value 0, and two fields it does not read.
Field(gap, value) == [gap |-> gap, value |-> value]
FieldText(label, f) == label \o [i \in 1..f.gap |-> " "] \o f.value
CyclesFields == {Field(1, <<"4", "2">>), Field(6, <<"0">>)}
RThroughputFields == {Field(1, <<"3", ".", "5">>), Field(6, <<"0", ".", "8", "0">>)}
L_Iterations == <<"I", "t", "e", "r", "a", "t", "i", "o", "n", "s", ":", " ", " ", " ", " ", " ", " ", " ", " ", "1", "0", "0">>
L_TotalUOps == <<"T", "o", "t", "a", "l", " ", "u", "O", "p", "s", ":", " ", " ", " ", " ", " ", " ", " ", " ", "3", "0", "0">>
SummaryLines ==
    { FieldText(S_TotalCycles, f) : f \in CyclesFields }
        \cup { FieldText(S_BlockRThroughput, f) : f \in RThroughputFields }
        \cup {L_Iterations, L_TotalUOps}

\* The head of the instruction info view, up to and with the column header.
InfoHead ==
    <<"\n", "\n", "I", "n", "s", "t", "r", "u", "c", "t", "i", "o", "n", " ", "I", "n", "f", "o", ":", "\n", "[", "1", "]", ":", " ", "#", "u", "O", "p", "s", "\n", "[", "2", "]", ":", " ", "L", "a", "t", "e", "n", "c", "y", "\n", "[", "3", "]", ":", " ", "R", "T", "h", "r", "o", "u", "g", "h", "p", "u", "t", "\n">>
    \o <<"[", "4", "]", ":", " ", "M", "a", "y", "L", "o", "a", "d", "\n", "[", "5", "]", ":", " ", "M", "a", "y", "S", "t", "o", "r", "e", "\n", "[", "6", "]", ":", " ", "H", "a", "s", "S", "i", "d", "e", "E", "f", "f", "e", "c", "t", "s", " ", "(", "U", ")", "\n">>
    \o <<"\n", "[", "1", "]", " ", " ", " ", " ", "[", "2", "]", " ", " ", " ", " ", "[", "3", "]", " ", " ", " ", " ", "[", "4", "]", " ", " ", " ", " ", "[", "5", "]", " ", " ", " ", " ", "[", "6", "]", " ", " ", " ", " ", "I", "n", "s", "t", "r", "u", "c", "t", "i", "o", "n", "s", ":", "\n">>

\* The head of the resource pressure view, which follows the table.
ResourcesHead == <<"\n", "\n", "R", "e", "s", "o", "u", "r", "c", "e", "s", ":", "\n", "[", "0", "]", " ", " ", " ", "-", " ", "S", "B", "D", "i", "v", "i", "d", "e", "r", "\n">>

\* One row of the table as llvm-mca formats it: the three numbers in
\* columns, a 7-character column for each of the MayLoad, MayStore and
\* HasSideEffects markers, then the instruction.
Pad(n) == [i \in 1..n |-> " "]
Mark(set, c) == IF set THEN <<" ", c>> \o Pad(5) ELSE Pad(7)
RowText(row) ==
    <<" ">> \o row.uops \o Pad(4 + 3 - Len(row.uops))
            \o row.latency \o Pad(3 + 3 - Len(row.latency))
            \o row.throughput \o Pad(3)
            \o Mark(row.mayLoad, "*") \o Mark(row.mayStore, "*") \o Mark(row.sideEffects, "U")
            \o row.text

\* Instructions as the table lists them: one that touches no memory, a
\* load, and a read-modify-write.
I_addps == <<"a", "d", "d", "p", "s", "\t", "%", "x", "m", "m", "0", ",", " ", "%", "x", "m", "m", "1">>
I_movl == <<"m", "o", "v", "l", "\t", "(", "%", "r", "d", "i", ")", ",", " ", "%", "e", "a", "x">>
I_addl == <<"a", "d", "d", "l", "\t", "%", "e", "a", "x", ",", " ", "(", "%", "r", "d", "i", ")">>
InstrRows ==
    { [uops |-> <<"1">>, latency |-> <<"3">>, throughput |-> <<"1", ".", "0", "0">>,
       mayLoad |-> FALSE, mayStore |-> FALSE, sideEffects |-> FALSE, text |-> I_addps],
      [uops |-> <<"1">>, latency |-> <<"5">>, throughput |-> <<"0", ".", "5", "0">>,
       mayLoad |-> TRUE, mayStore |-> FALSE, sideEffects |-> FALSE, text |-> I_movl],
      [uops |-> <<"2">>, latency |-> <<"6">>, throughput |-> <<"1", ".", "0", "0">>,
       mayLoad |-> TRUE, mayStore |-> TRUE, sideEffects |-> FALSE, text |-> I_addl] }

\* Lines that are no rows: a blank line and a separator.
L_Blank == <<>>
L_Separator == <<"-", "-", "-", "-", "-", "-">>
TableLines == { RowText(row) : row \in InstrRows } \cup {L_Blank, L_Separator}

SeqsUpTo(S, n) == UNION { [1..k -> S] : k \in 0..n }

\* A report in parts: the lines of the summary view, whether the
\* instruction info view is printed and the lines under its header, whether
\* the resource pressure view follows.
ReportOf(summary, info, rows, resources) ==
    [summary |-> summary, info |-> info, rows |-> rows, resources |-> resources]

\* The text of a report; views is the text of the views printed after the
\* ones above, when there are any.
StdoutOf(report) ==
    JoinLines(report.summary)
        \o (IF report.info THEN InfoHead \o JoinLines(report.rows) ELSE <<>>)
        \o (IF report.resources THEN ResourcesHead ELSE <<>>)
        \o (IF Has(report, "views") THEN report.views ELSE <<>>)

\* The report of a usual run.
UsualReport ==
    ReportOf(<<L_Iterations, FieldText(S_TotalCycles, Field(1, <<"4", "2">>)),
               FieldText(S_BlockRThroughput, Field(6, <<"0", ".", "8", "0">>))>>, TRUE,
             <<RowText(CHOOSE row \in InstrRows : row.text = I_addps)>>, TRUE)

\* Two reports of one summary line, which differ in the cycle count.
ShortReports == { ReportOf(<<FieldText(S_TotalCycles, f)>>, FALSE, <<>>, FALSE) : f \in CyclesFields }

\* The reports with any summary lines and no further view, and the reports
\* with the usual summary and any lines under the table header.
SummaryReports ==
    { ReportOf(s, FALSE, <<>>, FALSE) : s \in SeqsUpTo(SummaryLines, MaxSummaryLines) }
TableReports ==
    { ReportOf(UsualReport.summary, TRUE, rows, res) :
          rows \in SeqsUpTo(TableLines, MaxRows), res \in BOOLEAN }
Reports == SummaryReports \cup TableReports

\* Reports in another layout than the usual one: a Block RThroughput field
\* and a throughput column that are runs of digits and dots, and a view
\* other than the resource pressure view after the instruction table, with
\* a line of number columns of its own.
OddRThroughputFields == {Field(1, <<"3", ".", "5">>), Field(1, <<"1", ".", "2", ".", "3">>), Field(1, <<".">>)}
OddThroughputs == {<<"1", ".", "0", "0">>, <<"1", ".", "2", ".", "3">>, <<".">>}
OddRows ==
    { [uops |-> <<"1">>, latency |-> <<"3">>, throughput |-> t,
       mayLoad |-> FALSE, mayStore |-> FALSE, sideEffects |-> FALSE, text |-> I_addps] :
          t \in OddThroughputs }
S_Timeline == <<"T", "i", "m", "e", "l", "i", "n", "e", " ", "v", "i", "e", "w">>
I_nop == <<"n", "o", "p">>
ViewRow ==
    [uops |-> <<"7">>, latency |-> <<"9">>, throughput |-> <<"2", ".", "0", "0">>,
     mayLoad |-> FALSE, mayStore |-> FALSE, sideEffects |-> FALSE, text |-> I_nop]
ViewText(name, lines) == <<"\n", "\n">> \o name \o <<":", "\n">> \o JoinLines(lines)
OddViews == {<<>>, ViewText(S_Timeline, <<RowText(ViewRow)>>)}
OddReports ==
    { [summary |-> <<RowText(ViewRow), FieldText(S_BlockRThroughput, f)>>, info |-> TRUE,
       rows |-> rows, resources |-> res, views |-> views] :
          f \in OddRThroughputFields,
          rows \in {<<>>} \cup { <<RowText(row)>> : row \in OddRows },
          res \in BOOLEAN, views \in OddViews }

----------------------------------------------------------------------------
(* analyzeMca: the source file and the two command lines.                  *)

S_native == <<"n", "a", "t", "i", "v", "e">>
S_targetFlag == <<"-", "-", "t", "a", "r", "g", "e", "t", "=">>
H_Std == <<"#", "i", "n", "c", "l", "u", "d", "e", " ", "<", "s", "t", "d", "d", "e", "f", ".", "h", ">", "\n", "#", "i", "n", "c", "l", "u", "d", "e", " ", "<", "s", "t", "d", "i", "n", "t", ".", "h", ">", "\n">>
H_Neon == <<"#", "i", "n", "c", "l", "u", "d", "e", " ", "<", "a", "r", "m", "_", "n", "e", "o", "n", ".", "h", ">", "\n">>
H_Altivec == <<"#", "i", "n", "c", "l", "u", "d", "e", " ", "<", "a", "l", "t", "i", "v", "e", "c", ".", "h", ">", "\n">>
H_Immintrin == <<"#", "i", "n", "c", "l", "u", "d", "e", " ", "<", "i", "m", "m", "i", "n", "t", "r", "i", "n", ".", "h", ">", "\n">>
H_Typedefs ==
    <<"\n", "#", "i", "f", "n", "d", "e", "f", " ", "u", "c", "h", "a", "r", "\n", "t", "y", "p", "e", "d", "e", "f", " ", "u", "n", "s", "i", "g", "n", "e", "d", " ", "c", "h", "a", "r", " ", "u", "c", "h", "a", "r", ";", "\n", "#", "e", "n", "d", "i", "f", "\n">>
    \o <<"#", "i", "f", "n", "d", "e", "f", " ", "u", "i", "n", "t", "\n", "t", "y", "p", "e", "d", "e", "f", " ", "u", "n", "s", "i", "g", "n", "e", "d", " ", "i", "n", "t", " ", "u", "i", "n", "t", ";", "\n", "#", "e", "n", "d", "i", "f", "\n">>
    \o <<"#", "i", "f", "n", "d", "e", "f", " ", "u", "s", "h", "o", "r", "t", "\n", "t", "y", "p", "e", "d", "e", "f", " ", "u", "n", "s", "i", "g", "n", "e", "d", " ", "s", "h", "o", "r", "t", " ", "u", "s", "h", "o", "r", "t", ";", "\n", "#", "e", "n", "d", "i", "f", "\n">>

\* const isCrossCompile = config.target && config.target !== 'native'
IsCrossCompile(config) == TruthyStr(config, "target") /\ config.target # S_native

\* compileFlags.join(' ')
CompileFlagsStr(config) ==
    IF IsCrossCompile(config) THEN "-ffreestanding -nostdlibinc" ELSE ""

\* headers, as it is when codeToCompile is built
Headers(config) ==
    (IF IsCrossCompile(config) THEN <<>> ELSE H_Std)
        \o (IF Has(config, "target") /\ Includes(config.target, S_aarch64)
            THEN H_Neon
            ELSE IF Has(config, "target") /\ Includes(config.target, S_powerpc)
            THEN H_Altivec
            ELSE H_Immintrin)
        \o H_Typedefs

\* A variant that trims the source text.
CodeToCompileTrimmed(config, codeText) == Headers(config) \o Trim(codeText)

\* const codeToCompile = headers + codeText
CodeToCompile(config, codeText) == Headers(config) \o codeText

\* const targetFlag = config.target ? `--target=${config.target}` : ''
TargetFlag(config) ==
    IF TruthyStr(config, "target") THEN S_targetFlag \o config.target ELSE <<>>

\* A variant that looks at mcpu before march.
CpuFlagMcpuFirst(config) ==
    IF TruthyFlag(config, "useNative") THEN "-march=native"
    ELSE IF TruthyName(config, "mcpu") THEN "-mcpu=" \o config.mcpu
    ELSE IF TruthyName(config, "march") THEN "-march=" \o config.march
    ELSE ""

\* cpuFlag: -march=native, else -march=<march>, else -mcpu=<mcpu>, else ''
CpuFlag(config) ==
    IF TruthyFlag(config, "useNative") THEN "-march=native"
    ELSE IF TruthyName(config, "march") THEN "-march=" \o config.march
    ELSE IF TruthyName(config, "mcpu") THEN "-mcpu=" \o config.mcpu
    ELSE ""

\* path.join(tmpDir, name)
PathJoin(tmpDir, name) == [dir |-> tmpDir, name |-> name]

\* `clang -S -O2 ${targetFlag} ${cpuFlag} ${compileFlagsStr} -o ${asmFile}
\* ${cFile}`, by its fixed head and its interpolated parts
ClangCmd(config, tmpDir) ==
    [fixed |-> "clang -S -O2",
     targetFlag |-> TargetFlag(config), cpuFlag |-> CpuFlag(config),
     compileFlagsStr |-> CompileFlagsStr(config),
     asmFile |-> PathJoin(tmpDir, "output.s"), cFile |-> PathJoin(tmpDir, "input.cpp")]

\* The template literal `${x}` of a property that may be absent.
Interpolate(c, f) == IF Has(c, f) THEN c[f] ELSE "undefined"

\* A variant that reads the identifier from march only.
McpuFromMarch(config) ==
    IF TruthyFlag(config, "useNative") THEN "native" ELSE Interpolate(config, "march")

\* const mcpuForMca = config.mcpu || (config.useNative ? 'native' :
\* config.march)
McpuForMca(config) ==
    IF TruthyName(config, "mcpu") THEN config.mcpu
    ELSE IF TruthyFlag(config, "useNative") THEN "native"
    ELSE Interpolate(config, "march")

\* `llvm-mca -mcpu=${mcpuForMca} ${asmFile}`
McaCmd(config, tmpDir) ==
    [mcpu |-> "-mcpu=" \o McpuForMca(config), asmFile |-> PathJoin(tmpDir, "output.s")]

\* What clang -S writes for a source text and flags: the compiler is a
\* function of the text it reads and of its flags, and the assembly is
\* named by them.
AssemblyOf(source, clangCmd) ==
    [source |-> source, targetFlag |-> clangCmd.targetFlag,
     cpuFlag |-> clangCmd.cpuFlag, compileFlagsStr |-> clangCmd.compileFlagsStr]

----------------------------------------------------------------------------
(* Requests: the locals of one command invocation / one analyzeMca call.   *)

\* A completion that is not there yet (nothing pending, not settled).
NoValue == [kind |-> "none"]

\* The locals before the handler runs; a local that is no longer read is
\* reset to its value here.
IdleReq ==
    [pc |-> "idle", via |-> "", text |-> <<>>, hostArch |-> <<>>, cpuItems |-> {},
     cpuKey |-> "", tmpDir |-> 0, clangCmd |-> NoValue, mcaCmd |-> NoValue,
     simulated |-> NoValue, report |-> NoValue, stdout |-> <<>>,
     pending |-> NoValue, outcome |-> NoValue, shown |-> <<>>, view |-> NoValue]

\* A call of the file system or a spawned process, as the log records it.
Call(op, ok) == [op |-> op, ok |-> ok]

\* An error thrown by the named operation; the value analyzeMca returns.
ErrorOf(op) == [kind |-> "error", thrownBy |-> op]

\* The object analyzeMca returns, from the report in stdout and the
\* assembly read back.  ResultWithPath returns the path of the assembly
\* file for the assembly.
ResultWithPath(r, asmContent) ==
    [kind |-> "result", latency |-> Latency(req[r].stdout),
     throughput |-> Throughput(req[r].stdout), fullReport |-> req[r].stdout,
     assembly |-> req[r].mcaCmd.asmFile,
     cpuTarget |-> Interpolate(Get(CPU_CONFIGS, req[r].cpuKey), "category") \o " - "
                       \o Interpolate(Get(CPU_CONFIGS, req[r].cpuKey), "label"),
     instructions |-> Instructions(req[r].stdout)]

ResultOf(r, asmContent) ==
    [kind |-> "result", latency |-> Latency(req[r].stdout),
     throughput |-> Throughput(req[r].stdout), fullReport |-> req[r].stdout,
     assembly |-> asmContent,
     cpuTarget |-> Interpolate(Get(CPU_CONFIGS, req[r].cpuKey), "category") \o " - "
                       \o Interpolate(Get(CPU_CONFIGS, req[r].cpuKey), "label"),
     instructions |-> Instructions(req[r].stdout)]

\* fs.mkdtemp(path.join(os.tmpdir(), 'llvm-mca-')) creates a directory whose
\* name no existing directory has; names are interchangeable, the model
\* takes the least free one.
TmpNames == 1..MaxReqs
\* A variant that hands out the same name every time.
SharedTmp == CHOOSE d \in TmpNames : \A e \in TmpNames : d <= e
FreshTmp == CHOOSE d \in TmpNames \ DOMAIN fs : \A e \in TmpNames \ DOMAIN fs : d <= e

----------------------------------------------------------------------------
(* analyzeMca                                                              *)

\* analyzeMca(codeText, cpuKey) up to its first await: the catalog lookup,
\* the throw for an unknown key, otherwise the call of fs.mkdtemp.
EnterAnalyzeMca(r, via, codeText, key) ==
    IF Get(CPU_CONFIGS, key) = Undefined
    THEN req' = [req EXCEPT ![r] = [@ EXCEPT !.pc = "settled", !.via = via,
                                             !.text = codeText, !.cpuKey = key,
                                             !.hostArch = <<>>, !.cpuItems = {},
                                             !.outcome = ErrorOf("lookup")]]
    ELSE req' = [req EXCEPT ![r] = [@ EXCEPT !.pc = "mkdtemp", !.via = via,
                                             !.text = codeText, !.cpuKey = key,
                                             !.hostArch = <<>>, !.cpuItems = {}]]

\* A stage inside the try block throws: control passes to the finally
\* block with the error pending.  ThrowPastFinally leaves the function at
\* once instead.
ThrowPastFinally(r, op) ==
    req' = [req EXCEPT ![r] = [@ EXCEPT !.pc = "settled", !.outcome = ErrorOf(op)]]

\* A variant that runs the failed stage again.
RetryInTry(r, op) ==
    req' = [req EXCEPT ![r] = [@ EXCEPT !.pc = op]]

ThrowInTry(r, op) ==
    req' = [req EXCEPT ![r] = [@ EXCEPT !.pc = "rm", !.pending = ErrorOf(op)]]

\* await fs.mkdtemp(...): outside the try block, a failure leaves analyzeMca.
Mkdtemp(r) ==
    /\ req[r].pc = "mkdtemp"
    /\ \/ /\ fs' = (FreshTmp :> [owner |-> r, files |-> <<>>]) @@ fs
          /\ req' = [req EXCEPT ![r] = [@ EXCEPT !.pc = "writeFile", !.tmpDir = FreshTmp]]
          /\ log' = [log EXCEPT ![r] = Append(@, Call("mkdtemp", TRUE))]
       \/ /\ req' = [req EXCEPT ![r] = [@ EXCEPT !.pc = "settled",
                                                 !.outcome = ErrorOf("mkdtemp")]]
          /\ log' = [log EXCEPT ![r] = Append(@, Call("mkdtemp", FALSE))]
          /\ UNCHANGED fs
    /\ UNCHANGED <<genPc, genIdx, configs, CPU_CONFIGS>>
    /\ UNCHANGED cacheVars

\* await fs.writeFile(cFile, codeToCompile), then the clang command line
\* is built and spawned.
WriteFile(r) ==
    /\ req[r].pc = "writeFile"
    /\ \/ /\ req[r].tmpDir \in DOMAIN fs
          /\ fs' = [fs EXCEPT ![req[r].tmpDir].files =
                        ("input.cpp" :> CodeToCompile(Get(CPU_CONFIGS, req[r].cpuKey),
                                                      req[r].text)) @@ @]
          /\ req' = [req EXCEPT ![r] = [@ EXCEPT !.pc = "clang",
                          !.clangCmd = ClangCmd(Get(CPU_CONFIGS, req[r].cpuKey),
                                                req[r].tmpDir)]]
          /\ log' = [log EXCEPT ![r] = Append(@, Call("writeFile", TRUE))]
       \/ /\ ThrowInTry(r, "writeFile")
          /\ log' = [log EXCEPT ![r] = Append(@, Call("writeFile", FALSE))]
          /\ UNCHANGED fs
    /\ UNCHANGED <<genPc, genIdx, configs, CPU_CONFIGS>>
    /\ UNCHANGED cacheVars

\* await execAsync(clangCmd): when it succeeds the compiler has read the
\* source file and written the assembly file named on its command line;
\* then the llvm-mca command line is built and spawned.
Clang(r) ==
    /\ req[r].pc = "clang"
    /\ \/ /\ req[r].clangCmd.cFile.dir \in DOMAIN fs
          /\ "input.cpp" \in DOMAIN fs[req[r].clangCmd.cFile.dir].files
          /\ fs' = [fs EXCEPT ![req[r].clangCmd.asmFile.dir].files =
                        ("output.s" :> AssemblyOf(fs[req[r].clangCmd.cFile.dir].files["input.cpp"],
                                                  req[r].clangCmd)) @@ @]
          /\ req' = [req EXCEPT ![r] = [@ EXCEPT !.pc = "llvm-mca",
                          !.mcaCmd = McaCmd(Get(CPU_CONFIGS, req[r].cpuKey),
                                            req[r].tmpDir)]]
          /\ log' = [log EXCEPT ![r] = Append(@, Call("clang", TRUE))]
       \/ /\ ThrowInTry(r, "clang")
          /\ log' = [log EXCEPT ![r] = Append(@, Call("clang", FALSE))]
          /\ UNCHANGED fs
    /\ UNCHANGED <<genPc, genIdx, configs, CPU_CONFIGS>>
    /\ UNCHANGED cacheVars

\* What llvm-mca was given when it printed a report: the assembly it read
\* and the cpu flag.
Simulated(asm, mcaCmd) == [asm |-> asm, mcpu |-> mcaCmd.mcpu]

\* const { stdout } = await execAsync(mcaCmd): when it succeeds the
\* simulator has read the assembly file and printed one of the given
\* reports; the simulator is a function of what it is given, so the report
\* is the one it printed before for the same assembly and flag.
LlvmMca(r, reports) ==
    /\ req[r].pc = "llvm-mca"
    /\ \/ /\ req[r].mcaCmd.asmFile.dir \in DOMAIN fs
          /\ "output.s" \in DOMAIN fs[req[r].mcaCmd.asmFile.dir].files
          /\ \E report \in reports :
                LET given == Simulated(fs[req[r].mcaCmd.asmFile.dir].files["output.s"],
                                       req[r].mcaCmd)
                IN  /\ \A q \in Reqs : req[q].simulated = given => req[q].report = report
                    /\ req' = [req EXCEPT ![r] = [@ EXCEPT !.pc = "readFile",
                                    !.simulated = given, !.report = report,
                                    !.stdout = StdoutOf(report)]]
          /\ log' = [log EXCEPT ![r] = Append(@, Call("llvm-mca", TRUE))]
       \/ /\ ThrowInTry(r, "llvm-mca")
          /\ log' = [log EXCEPT ![r] = Append(@, Call("llvm-mca", FALSE))]
    /\ UNCHANGED <<genPc, genIdx, configs, CPU_CONFIGS, fs>>
    /\ UNCHANGED cacheVars

\* const asmContent = await fs.readFile(asmFile, 'utf-8'), then the parsing
\* of the report and the return statement, whose value is pending while the
\* finally block runs.
ReadFile(r) ==
    /\ req[r].pc = "readFile"
    /\ \/ /\ req[r].tmpDir \in DOMAIN fs
          /\ "output.s" \in DOMAIN fs[req[r].tmpDir].files
          /\ req' = [req EXCEPT ![r] = [@ EXCEPT !.pc = "rm",
                          !.pending = ResultOf(r, fs[req[r].tmpDir].files["output.s"])]]
          /\ log' = [log EXCEPT ![r] = Append(@, Call("readFile", TRUE))]
       \/ /\ ThrowInTry(r, "readFile")
          /\ log' = [log EXCEPT ![r] = Append(@, Call("readFile", FALSE))]
    /\ UNCHANGED <<genPc, genIdx, configs, CPU_CONFIGS, fs>>
    /\ UNCHANGED cacheVars

\* finally { await fs.rm(tmpDir, { recursive: true, force: true }) }: when
\* the removal succeeds the pending result or error completes the call; a
\* rejection of fs.rm is thrown from the finally block and replaces it.
RmRejected(r) ==
    /\ req' = [req EXCEPT ![r] = [@ EXCEPT !.pc = "settled", !.outcome = ErrorOf("rm")]]
    /\ log' = [log EXCEPT ![r] = Append(@, Call("rm", FALSE))]
    /\ UNCHANGED fs

RmRemoved(r) ==
    /\ fs' = [d \in DOMAIN fs \ {req[r].tmpDir} |-> fs[d]]
    /\ req' = [req EXCEPT ![r] = [@ EXCEPT !.pc = "settled", !.outcome = req[r].pending]]
    /\ log' = [log EXCEPT ![r] = Append(@, Call("rm", TRUE))]

Rm(r) ==
    /\ req[r].pc = "rm"
    /\ \/ RmRemoved(r)
       \/ RmRejected(r)
    /\ UNCHANGED <<genPc, genIdx, configs, CPU_CONFIGS>>
    /\ UNCHANGED cacheVars

\* analyzeMca called with arguments from the given sets.
CallAnalyzeMca(r, texts, keys) ==
    /\ genPc = "loaded"
    /\ req[r].pc = "idle"
    /\ \E codeText \in texts, key \in keys :
          EnterAnalyzeMca(r, "call", codeText, key)
    /\ UNCHANGED <<genPc, genIdx, configs, CPU_CONFIGS, fs, log>>
    /\ UNCHANGED cacheVars

----------------------------------------------------------------------------
(* The results view: the script of the page getWebviewContent returns.     *)

\* Characters in the order of their code units.
CodeUnits ==
    <<"\t", "\n", " ", "\"", "%", "&", "(", ")", "*", ",", "-", ".", "0", "1", "2", "3", "4", "5", "6", "7", "8", "9", ":", "<", ">",
      "\\", "_", "a", "b", "c", "d", "e", "f", "g", "h", "i", "j", "k", "l", "m", "n", "o", "p", "q", "r", "s", "t", "u", "v", "w", "x", "y", "z">>
CharCode(c) == CHOOSE i \in DOMAIN CodeUnits : CodeUnits[i] = c

\* a < b on strings: the first position at which they differ decides, and
\* a proper prefix is less.
StrLess(a, b) ==
    \E k \in 1..Len(b) :
        /\ \A j \in 1..(k - 1) : j <= Len(a) /\ a[j] = b[j]
        /\ k > Len(a) \/ CharCode(a[k]) < CharCode(b[k])

\* The value of a string of decimal digits.
DigitValue(c) == (CHOOSE i \in 1..10 : <<"0", "1", "2", "3", "4", "5", "6", "7", "8", "9">>[i] = c) - 1
RECURSIVE DecimalValue(_)
DecimalValue(ds) ==
    IF ds = <<>> THEN 0
    ELSE 10 * DecimalValue(SubSeq(ds, 1, Len(ds) - 1)) + DigitValue(ds[Len(ds)])

\* parseFloat of a string: the longest prefix that is a decimal number, NaN
\* when it has no digit.  Values are counted in hundredths (two decimals
\* are kept).
NaN == -1
parseFloat(s) ==
    LET whole == Run(s, 1, Digits)
        fraction == IF whole < Len(s) /\ s[whole + 1] = "." THEN Run(s, whole + 2, Digits) ELSE 0
    IN  IF whole + fraction = 0
        THEN NaN
        ELSE 100 * DecimalValue(SubSeq(s, 1, whole))
                 + DecimalValue(SubSeq(SubSeq(s, whole + 2, whole + 1 + fraction) \o <<"0", "0">>, 1, 2))

\* let valA = a[column]; if (column !== 'instruction') valA =
\* parseFloat(valA): order is a number already.
ValueOf(a, column) ==
    IF column = "instruction" THEN a.instruction
    ELSE IF column = "order" THEN 100 * a.order
    ELSE parseFloat(a[column])

\* valA < valB: on strings for the instruction column, on numbers
\* otherwise, where a comparison with NaN is false.
Less(column, valA, valB) ==
    IF column = "instruction" THEN StrLess(valA, valB)
    ELSE valA # NaN /\ valB # NaN /\ valA < valB

\* The comparison function given to instructions.sort.
CompareFn(a, b, column, direction) ==
    IF Less(column, ValueOf(a, column), ValueOf(b, column))
    THEN (IF direction = "asc" THEN -1 ELSE 1)
    ELSE IF Less(column, ValueOf(b, column), ValueOf(a, column))
    THEN (IF direction = "asc" THEN 1 ELSE -1)
    ELSE 0

\* Array.prototype.sort is stable: an element goes after the elements that
\* do not compare greater than it.
Insert(sorted, x, column, direction) ==
    LET k == Cardinality({ i \in DOMAIN sorted : CompareFn(sorted[i], x, column, direction) <= 0 })
    IN  SubSeq(sorted, 1, k) \o <<x>> \o SubSeq(sorted, k + 1, Len(sorted))

RECURSIVE ArraySort(_, _, _)
ArraySort(array, column, direction) ==
    IF array = <<>> THEN <<>>
    ELSE Insert(ArraySort(SubSeq(array, 1, Len(array) - 1), column, direction),
                array[Len(array)], column, direction)

\* JSON.stringify of a string: the characters between quotes, with the
\* quote, the backslash and the control characters escaped.
JsonEscape(c) ==
    IF c = "\"" THEN <<"\\", "\"">>
    ELSE IF c = "\\" THEN <<"\\", "\\">>
    ELSE IF c = "\t" THEN <<"\\", "t">>
    ELSE IF c = "\n" THEN <<"\\", "n">>
    ELSE <<c>>

RECURSIVE JsonChars(_)
JsonChars(s) == IF s = <<>> THEN <<>> ELSE JsonEscape(Head(s)) \o JsonChars(Tail(s))

JsonString(s) == <<"\"">> \o JsonChars(s) \o <<"\"">>

\* The string a literal denotes, read by the script (const instructions =
\* [...]) and by JSON.parse: from the character after the opening quote
\* at position i to the closing quote, an escape standing for its
\* character.
Escaped(c) == IF c = "t" THEN "\t" ELSE IF c = "n" THEN "\n" ELSE c

RECURSIVE LiteralFrom(_, _)
LiteralFrom(text, i) ==
    IF i > Len(text) \/ text[i] = "\"" THEN <<>>
    ELSE IF text[i] = "\\" /\ i < Len(text)
    THEN <<Escaped(text[i + 1])>> \o LiteralFrom(text, i + 2)
    ELSE <<text[i]>> \o LiteralFrom(text, i + 1)

\* An array of instruction records written as JSON and read back.
CopyOf(instructions) ==
    [k \in DOMAIN instructions |->
        [order |-> instructions[k].order,
         uops |-> LiteralFrom(JsonString(instructions[k].uops), 2),
         latency |-> LiteralFrom(JsonString(instructions[k].latency), 2),
         throughput |-> LiteralFrom(JsonString(instructions[k].throughput), 2),
         instruction |-> LiteralFrom(JsonString(instructions[k].instruction), 2)]]

\* escapeHtml of the script: div.textContent = text; return div.innerHTML
EscapeChar(c) ==
    IF c = "&" THEN <<"&", "a", "m", "p", ";">>
    ELSE IF c = "<" THEN <<"&", "l", "t", ";">>
    ELSE IF c = ">" THEN <<"&", "g", "t", ";">>
    ELSE <<c>>

RECURSIVE EscapeHtml(_)
EscapeHtml(text) ==
    IF text = <<>> THEN <<>> ELSE EscapeChar(Head(text)) \o EscapeHtml(Tail(text))

\* renderTable: the rows of the table body, one per element of
\* instructions, by the contents of their cells.
RenderTable(instructions) ==
    [k \in DOMAIN instructions |->
        [order |-> instructions[k].order, uops |-> instructions[k].uops,
         latency |-> instructions[k].latency, throughput |-> instructions[k].throughput,
         instruction |-> EscapeHtml(instructions[k].instruction)]]

\* let currentSort = { column: null, direction: 'asc' }; the column is a
\* sequence of no name (null) or of one name.
UnsortedState == [column |-> <<>>, direction |-> "asc"]

\* The page when its script has run: instructions, originalOrder,
\* currentSort, the class 'active' of the reset button and the table body.
WebviewOf(results) ==
    [instructions |-> CopyOf(results.instructions),
     originalOrder |-> CopyOf(CopyOf(results.instructions)),
     currentSort |-> UnsortedState,
     resetActive |-> TRUE,
     tbody |-> RenderTable(CopyOf(results.instructions))]

\* The data-column values of the sortable headers.
SortColumns == {"order", "uops", "latency", "throughput", "instruction"}

----------------------------------------------------------------------------
(* The command handler registered by registerLlvmMcaCommand.               *)

Show(r, message) == Append(req[r].shown, message)

\* The handler after getHostArch resolved: the filter over the catalog, the
\* empty-list check and showQuickPick.
AfterHostArch(r, hostArch) ==
    LET items == CompatibleKeys(hostArch)
    IN  IF items = {}
        THEN req' = [req EXCEPT ![r] = [@ EXCEPT !.pc = "returned", !.hostArch = hostArch,
                         !.shown = Show(r, "No compatible CPU targets found for your system")]]
        ELSE req' = [req EXCEPT ![r] = [@ EXCEPT !.pc = "pick", !.hostArch = hostArch,
                                                 !.cpuItems = items]]

\* The handler up to its first await: the editor and selection checks and
\* the start of getHostArch (which spawns `uname -m` on darwin and linux).
CommandStart(r, editor, text, platform) ==
    IF ~editor
    THEN req' = [req EXCEPT ![r] = [@ EXCEPT !.pc = "returned", !.via = "command",
                                             !.shown = Show(r, "No active editor found")]]
    ELSE IF Trim(text) = <<>>
    THEN req' = [req EXCEPT ![r] = [@ EXCEPT !.pc = "returned", !.via = "command",
                                             !.text = text,
                                             !.shown = Show(r, "No code selected")]]
    ELSE req' = [req EXCEPT ![r] = [@ EXCEPT !.via = "command", !.text = text,
                     !.pc = IF platform \in {"darwin", "linux"} THEN "uname" ELSE "osArch"]]

CmdTrigger(r) ==
    /\ genPc = "loaded"
    /\ req[r].pc = "idle"
    /\ \E editor \in BOOLEAN, text \in Texts, platform \in Platforms :
          CommandStart(r, editor, text, platform)
    /\ UNCHANGED <<genPc, genIdx, configs, CPU_CONFIGS, fs, log>>
    /\ UNCHANGED cacheVars

\* getHostArch: `uname -m` ran; its trimmed output is the host string, and
\* when it fails the catch block returns os.arch().
Uname(r) ==
    /\ req[r].pc = "uname"
    /\ \/ /\ \E h \in HostArchs : AfterHostArch(r, Trim(h \o <<"\n">>))
          /\ log' = [log EXCEPT ![r] = Append(@, Call("uname", TRUE))]
       \/ /\ \E a \in OsArchs : AfterHostArch(r, a)
          /\ log' = [log EXCEPT ![r] = Append(@, Call("uname", FALSE))]
    /\ UNCHANGED <<genPc, genIdx, configs, CPU_CONFIGS, fs>>
    /\ UNCHANGED cacheVars

\* getHostArch on any other platform: return os.arch().
OsArch(r) ==
    /\ req[r].pc = "osArch"
    /\ \E a \in OsArchs : AfterHostArch(r, a)
    /\ UNCHANGED <<genPc, genIdx, configs, CPU_CONFIGS, fs, log>>
    /\ UNCHANGED cacheVars

\* showQuickPick resolved: the user cancelled, or picked an item, and then
\* withProgress calls analyzeMca(text, selectedCpu.key).
Pick(r) ==
    /\ req[r].pc = "pick"
    /\ \/ req' = [req EXCEPT ![r] = [@ EXCEPT !.pc = "returned"]]
       \/ \E k \in req[r].cpuItems : EnterAnalyzeMca(r, "command", req[r].text, k)
    /\ UNCHANGED <<genPc, genIdx, configs, CPU_CONFIGS, fs, log>>
    /\ UNCHANGED cacheVars

\* analyzeMca settled inside withProgress: with a result the panel is
\* created and the summary shown; an error reaches the catch block.
CmdSettled(r) ==
    /\ req[r].pc = "settled"
    /\ req[r].via = "command"
    /\ IF req[r].outcome.kind = "result"
       THEN req' = [req EXCEPT ![r] = [@ EXCEPT !.pc = "returned",
                        !.view = WebviewOf(req[r].outcome),
                        !.shown = req[r].shown \o <<"panel", "Analysis complete!">>]]
       ELSE req' = [req EXCEPT ![r] = [@ EXCEPT !.pc = "returned",
                        !.shown = Show(r, "LLVM-MCA Error")]]
    /\ UNCHANGED <<genPc, genIdx, configs, CPU_CONFIGS, fs, log>>
    /\ UNCHANGED cacheVars

\* The clicks a results view handles, as the log records them: on the
\* header of a column or on the 'Assembly Order' button (resetBtn).
ClickOf(target) == "click " \o target
Clicks(r) ==
    Cardinality({ i \in DOMAIN log[r] :
                      log[r][i].op \in { ClickOf(t) : t \in SortColumns \cup {"resetBtn"} } })

\* The state of the page after sortTable(column) on the state view;
\* instructions.sort sorts the array in place and originalOrder is another
\* array.  SortedShared is the page of a script whose originalOrder is the
\* same array as instructions.
SortedShared(view, column) ==
    LET direction == IF view.currentSort.column = <<column>> /\ view.currentSort.direction = "asc"
                     THEN "desc" ELSE "asc"
    IN  [instructions |-> ArraySort(view.instructions, column, direction),
         originalOrder |-> ArraySort(view.instructions, column, direction),
         currentSort |-> [column |-> <<column>>, direction |-> direction],
         resetActive |-> FALSE,
         tbody |-> RenderTable(ArraySort(view.instructions, column, direction))]

Sorted(view, column) ==
    LET direction == IF view.currentSort.column = <<column>> /\ view.currentSort.direction = "asc"
                     THEN "desc" ELSE "asc"
    IN  [instructions |-> ArraySort(view.instructions, column, direction),
         originalOrder |-> view.originalOrder,
         currentSort |-> [column |-> <<column>>, direction |-> direction],
         resetActive |-> FALSE,
         tbody |-> RenderTable(ArraySort(view.instructions, column, direction))]

\* A click on a sortable header: sortTable(th.dataset.column).
SortTable(r) ==
    /\ req[r].view # NoValue
    /\ Clicks(r) < MaxClicks
    /\ \E column \in SortColumns :
          /\ req' = [req EXCEPT ![r] = [@ EXCEPT !.view = Sorted(req[r].view, column)]]
          /\ log' = [log EXCEPT ![r] = Append(@, Call(ClickOf(column), TRUE))]
    /\ UNCHANGED <<genPc, genIdx, configs, CPU_CONFIGS, fs>>
    /\ UNCHANGED cacheVars

\* A click on the 'Assembly Order' button: instructions.length = 0;
\* instructions.push(...originalOrder); currentSort = { column: null,
\* direction: 'asc' }; renderTable().
ResetToAssemblyOrder(r) ==
    /\ req[r].view # NoValue
    /\ Clicks(r) < MaxClicks
    /\ req' = [req EXCEPT ![r] = [@ EXCEPT !.view =
                    [instructions |-> req[r].view.originalOrder,
                     originalOrder |-> req[r].view.originalOrder,
                     currentSort |-> UnsortedState,
                     resetActive |-> TRUE,
                     tbody |-> RenderTable(req[r].view.originalOrder)]]]
    /\ log' = [log EXCEPT ![r] = Append(@, Call(ClickOf("resetBtn"), TRUE))]
    /\ UNCHANGED <<genPc, genIdx, configs, CPU_CONFIGS, fs>>
    /\ UNCHANGED cacheVars

----------------------------------------------------------------------------
(* The intrinsic-name cache: getIntrinsics and fetchIntrinsicNames.        *)

Calls == 1..MaxCalls

\* A module-level list is null or an array: a sequence of no element
\* (null) or of one element, the array.  An array, the empty one too, is
\* truthy; null is not.
Null == <<>>
ArrayOf(list) == <<list>>
Truthy(v) == v # Null

\* text.split(/\s+/).map(s => s.trim()).filter(Boolean): the maximal runs
\* of characters that are not whitespace.
NameEnd(t) ==
    LET stops == { j \in 1..(Len(t) + 1) : j = Len(t) + 1 \/ t[j] \in Whitespace }
    IN  CHOOSE j \in stops : \A e \in stops : j <= e

RECURSIVE SplitNames(_)
SplitNames(text) ==
    IF TrimStart(text) = <<>> THEN <<>>
    ELSE <<SubSeq(TrimStart(text), 1, NameEnd(TrimStart(text)) - 1)>>
             \o SplitNames(SubSeq(TrimStart(text), NameEnd(TrimStart(text)), Len(TrimStart(text))))

\* What the server may answer to GET /api/intrinsic-names/: no answer (fetch
\* rejects), a status that is not ok, or ok with a body that is not JSON,
\* that is an object with the string property intrinsics, or that is
\* another object.
NameTexts == { <<"a", " ", "b", "\n">>, <<" ">> }
Bodies ==
    { [kind |-> "invalid"], [kind |-> "other"] }
        \cup { [kind |-> "names", intrinsics |-> text] : text \in NameTexts }
Responses ==
    { [kind |-> "rejected"], [kind |-> "response", ok |-> FALSE] }
        \cup { [kind |-> "response", ok |-> TRUE, body |-> body] : body \in Bodies }

\* A call of getIntrinsics that has not been made.  seen is the set of
\* calls that had resolved when this one was made; invoked and requested
\* tell whether it called fetchIntrinsicNames and whether that call sent a
\* request.
IdleCall ==
    [pc |-> "idle", seen |-> {}, invoked |-> FALSE, requested |-> FALSE,
     body |-> NoValue, settled |-> NoValue, result |-> Null]

Resolved == { c \in Calls : call[c].pc = "resolved" }

\* How the promise of fetchIntrinsicNames settles.
Fulfilled(list) == [kind |-> "fulfilled", value |-> list]
Rejected == [kind |-> "rejected"]

\* getIntrinsics() up to its first await or its return.  With a list stored
\* it returns it.  Otherwise it calls fetchIntrinsicNames, which reads the
\* token (a failure there rejects its promise), returns its own cached list
\* when it has one, and otherwise sends the request.
GetIntrinsics(c) ==
    /\ call[c].pc = "idle"
    /\ IF Truthy(intrinsics)
       THEN call' = [call EXCEPT ![c] = [@ EXCEPT !.pc = "resolved", !.seen = Resolved,
                                                  !.result = intrinsics]]
       ELSE \/ call' = [call EXCEPT ![c] = [@ EXCEPT !.pc = "fetched", !.seen = Resolved,
                                                     !.invoked = TRUE, !.settled = Rejected]]
            \/ IF Truthy(cachedIntrinsics)
               THEN call' = [call EXCEPT ![c] = [@ EXCEPT !.pc = "fetched", !.seen = Resolved,
                                 !.invoked = TRUE,
                                 !.settled = Fulfilled(cachedIntrinsics[1])]]
               ELSE call' = [call EXCEPT ![c] = [@ EXCEPT !.pc = "fetch", !.seen = Resolved,
                                 !.invoked = TRUE, !.requested = TRUE]]
    /\ UNCHANGED <<intrinsics, cachedIntrinsics>>
    /\ UNCHANGED mcaVars

\* await fetch(url, ...) settled: a rejection is caught and [] returned; a
\* response that is not ok returns []; otherwise response.json() is
\* awaited.
Fetch(c) ==
    /\ call[c].pc = "fetch"
    /\ \E response \in Responses :
          IF response.kind = "rejected" \/ ~response.ok
          THEN call' = [call EXCEPT ![c] = [@ EXCEPT !.pc = "fetched",
                                                     !.settled = Fulfilled(<<>>)]]
          ELSE call' = [call EXCEPT ![c] = [@ EXCEPT !.pc = "json", !.body = response.body]]
    /\ UNCHANGED <<intrinsics, cachedIntrinsics>>
    /\ UNCHANGED mcaVars

\* await response.json() settled: a body that is not JSON is caught and []
\* returned; an object with a string intrinsics is split, stored in
\* cachedIntrinsics and returned; any other value returns [].
Json(c) ==
    /\ call[c].pc = "json"
    /\ IF call[c].body.kind = "names"
       THEN /\ cachedIntrinsics' = ArrayOf(SplitNames(call[c].body.intrinsics))
            /\ call' = [call EXCEPT ![c] = [@ EXCEPT !.pc = "fetched", !.body = NoValue,
                             !.settled = Fulfilled(SplitNames(call[c].body.intrinsics))]]
       ELSE /\ call' = [call EXCEPT ![c] = [@ EXCEPT !.pc = "fetched", !.body = NoValue,
                                                      !.settled = Fulfilled(<<>>)]]
            /\ UNCHANGED cachedIntrinsics
    /\ UNCHANGED intrinsics
    /\ UNCHANGED mcaVars

\* await fetchIntrinsicNames() settled in getIntrinsics: intrinsics = the
\* list, or [] in the catch block; return intrinsics.
Fetched(c) ==
    /\ call[c].pc = "fetched"
    /\ intrinsics' = IF call[c].settled.kind = "fulfilled"
                     THEN ArrayOf(call[c].settled.value)
                     ELSE ArrayOf(<<>>)
    /\ call' = [call EXCEPT ![c] = [@ EXCEPT !.pc = "resolved", !.settled = NoValue,
                                              !.result = intrinsics']]
    /\ UNCHANGED cachedIntrinsics
    /\ UNCHANGED mcaVars

\* The extension loaded and no call of getIntrinsics made.
InitCache ==
    /\ intrinsics = Null
    /\ cachedIntrinsics = Null
    /\ call = [c \in Calls |-> IdleCall]

----------------------------------------------------------------------------
(* Specifications.                                                         *)

\* Module load (the catalog is generated), then one invocation of the
\* command.
Init ==
    /\ genPc = "native"
    /\ genIdx = 1
    /\ configs = EmptyObject
    /\ CPU_CONFIGS = EmptyObject
    /\ req = [r \in Reqs |-> IdleReq]
    /\ fs = [d \in {} |-> [owner |-> 0, files |-> <<>>]]
    /\ log = [r \in Reqs |-> <<>>]
    /\ InitCache

Next ==
    \/ GenNative
    \/ GenX86
    \/ GenArm
    \/ GenPower
    \/ GenReturn
    \/ CmdTrigger(1)
    \/ Uname(1)
    \/ OsArch(1)
    \/ Pick(1)
    \/ Mkdtemp(1)
    \/ WriteFile(1)
    \/ Clang(1)
    \/ LlvmMca(1, {UsualReport})
    \/ ReadFile(1)
    \/ Rm(1)
    \/ CmdSettled(1)

Spec == Init /\ [][Next]_vars

\* Keys that are not in the catalog: an unlisted cpu, the empty string, and
\* the names a plain object inherits.
ForeignKeys == {"riscv-rv64", ""} \cup ObjectPrototypeKeys

\* The extension loaded, then one call of analyzeMca with arbitrary
\* arguments (the function's own contract, outside the command): the
\* source text may be empty or blank, the key any string.
InitCall ==
    /\ genPc = "loaded"
    /\ genIdx = 1
    /\ configs = EmptyObject
    /\ CPU_CONFIGS = BuiltCatalog
    /\ req = [r \in Reqs |-> IdleReq]
    /\ fs = [d \in {} |-> [owner |-> 0, files |-> <<>>]]
    /\ log = [r \in Reqs |-> <<>>]
    /\ InitCache

NextCall ==
    \/ CallAnalyzeMca(1, Texts, DOMAIN CPU_CONFIGS \cup ForeignKeys)
    \/ Mkdtemp(1)
    \/ WriteFile(1)
    \/ Clang(1)
    \/ LlvmMca(1, {UsualReport})
    \/ ReadFile(1)
    \/ Rm(1)

SpecCall == InitCall /\ [][NextCall]_vars

\* The extension loaded, then analyzeMca called concurrently, each call on
\* a non-empty text with the native key or an unlisted one; the simulator
\* prints one of two short reports.
NextMca ==
    \E r \in Reqs :
        \/ CallAnalyzeMca(r, {<<"v">>}, {"native", "riscv-rv64"})
        \/ Mkdtemp(r)
        \/ WriteFile(r)
        \/ Clang(r)
        \/ LlvmMca(r, ShortReports)
        \/ ReadFile(r)
        \/ Rm(r)

SpecMca == InitCall /\ [][NextMca]_vars

\* The extension loaded, then one call of analyzeMca for the native target
\* in which the simulator prints any of the reports.
NextParse ==
    \/ CallAnalyzeMca(1, {<<"v">>}, {"native"})
    \/ Mkdtemp(1)
    \/ WriteFile(1)
    \/ Clang(1)
    \/ LlvmMca(1, Reports)
    \/ ReadFile(1)
    \/ Rm(1)

SpecParse == InitCall /\ [][NextParse]_vars

\* The extension loaded, then one call of analyzeMca for the native target
\* in which the simulator prints a report in another layout.
NextText ==
    \/ CallAnalyzeMca(1, {<<"v">>}, {"native"})
    \/ Mkdtemp(1)
    \/ WriteFile(1)
    \/ Clang(1)
    \/ LlvmMca(1, OddReports)
    \/ ReadFile(1)
    \/ Rm(1)

SpecText == InitCall /\ [][NextText]_vars

\* Reports whose tables differ in length and order: three rows of which two
\* have the same throughput, twice the same row, no row.
ViewReports ==
    { ReportOf(UsualReport.summary, TRUE, rows, TRUE) :
          rows \in { <<RowText(CHOOSE row \in InstrRows : row.text = I_movl),
                       RowText(CHOOSE row \in InstrRows : row.text = I_addps),
                       RowText(CHOOSE row \in InstrRows : row.text = I_addl)>>,
                     <<RowText(CHOOSE row \in InstrRows : row.text = I_addps),
                       RowText(CHOOSE row \in InstrRows : row.text = I_addps)>>,
                     <<>> } }

\* The command invoked on a selected text, `uname -m` answered and the
\* native target picked: analyzeMca is at its first await.
InitView ==
    /\ genPc = "loaded"
    /\ genIdx = 1
    /\ configs = EmptyObject
    /\ CPU_CONFIGS = BuiltCatalog
    /\ req = [r \in Reqs |->
                 IF r = 1
                 THEN [IdleReq EXCEPT !.pc = "mkdtemp", !.via = "command",
                                      !.text = <<"v">>, !.cpuKey = "native"]
                 ELSE IdleReq]
    /\ fs = [d \in {} |-> [owner |-> 0, files |-> <<>>]]
    /\ log = [r \in Reqs |-> IF r = 1 THEN <<Call("uname", TRUE)>> ELSE <<>>]
    /\ InitCache

\* The analysis of that invocation, then clicks in the results view it
\* opens.
NextView ==
    \/ Mkdtemp(1)
    \/ WriteFile(1)
    \/ Clang(1)
    \/ LlvmMca(1, ViewReports)
    \/ ReadFile(1)
    \/ Rm(1)
    \/ CmdSettled(1)
    \/ SortTable(1)
    \/ ResetToAssemblyOrder(1)

SpecView == InitView /\ [][NextView]_vars

\* The extension loaded, then calls of getIntrinsics made at any time, each
\* running to its awaits and resuming when they settle.
NextCache ==
    \E c \in Calls :
        \/ GetIntrinsics(c)
        \/ Fetch(c)
        \/ Json(c)
        \/ Fetched(c)

SpecCache == InitCall /\ [][NextCache]_vars

\* Cross-check of the two ways the catalog is obtained: generated step by
\* step (Spec) and computed in one go (the later specifications).
BuildAgrees == genPc = "loaded" => CPU_CONFIGS = BuiltCatalog

----------------------------------------------------------------------------
(* Vocabulary of the properties.                                           *)

\* Host families as the claims name them: by the substrings of the host
\* architecture string.
IsX86Host(h) == Includes(h, S_x86_64) \/ Includes(h, S_amd64)
IsArmHost(h) == Includes(h, S_aarch64) \/ Includes(h, S_arm64)
IsPowerHost(h) == Includes(h, S_ppc64) \/ Includes(h, S_powerpc)
IsUnknownHost(h) == ~IsX86Host(h) /\ ~IsArmHost(h) /\ ~IsPowerHost(h)

\* The ids generated for the listed cpus of each family.
X86Keys == { "x86-" \o X86List[i].cpu : i \in DOMAIN X86List }
ArmKeys == { "arm-" \o ArmList[i].cpu : i \in DOMAIN ArmList }
PowerKeys == { "power-" \o POWER_CPUS[i] : i \in DOMAIN POWER_CPUS }

\* The requests whose quick pick is open: the host is detected and the
\* catalog filtered for it.
Picking == { r \in Reqs : req[r].pc = "pick" }

----------------------------------------------------------------------------
(* C1 - C4: host compatibility.                                            *)

\* C1: on a host whose architecture string contains 'x86_64' or 'amd64',
\* the filtered catalog holds only the native entry and x86 entries (which
\* have no cross-target triple); no ARM and no PowerPC entry is offered.
C1_X86HostOffersOnlyX86 ==
    \A r \in Picking :
        IsX86Host(req[r].hostArch) =>
            /\ req[r].cpuItems \subseteq {"native"} \cup X86Keys
            /\ req[r].cpuItems \cap (ArmKeys \cup PowerKeys) = {}
            /\ \A k \in req[r].cpuItems \ {"native"} : ~Has(CPU_CONFIGS[k], "target")

C1_Witness ==
    \E r \in Picking :
        /\ IsX86Host(req[r].hostArch)
        /\ {"native", "x86-haswell", "x86-znver4"} \subseteq req[r].cpuItems

\* C2: on an ARM host (string contains 'aarch64' or 'arm64') the filtered
\* catalog holds only the native entry and ARM entries, on a PowerPC host
\* ('ppc64' or 'powerpc') only the native entry and PowerPC entries; no x86
\* entry is compatible with either.
C2_ArmPowerHostsOfferOnlyOwnFamily ==
    \A r \in Picking :
        /\ IsArmHost(req[r].hostArch) =>
               req[r].cpuItems \subseteq {"native"} \cup ArmKeys
        /\ IsPowerHost(req[r].hostArch) =>
               req[r].cpuItems \subseteq {"native"} \cup PowerKeys

\* C3: on a host of no recognised family the filtered catalog is exactly
\* the native entry.
C3_UnknownHostOffersNativeOnly ==
    \A r \in Picking :
        IsUnknownHost(req[r].hostArch) => req[r].cpuItems = {"native"}

\* C4: an entry with a cross-target triple is offered only when the host's
\* family is the one the triple names: an aarch64 triple only on an ARM
\* host, a powerpc triple only on a PowerPC host, none on an x86 host and
\* none on an unrecognised host.
C4_CrossTargetOnlyOnItsFamily ==
    \A r \in Picking :
        \A k \in req[r].cpuItems :
            Has(CPU_CONFIGS[k], "target") =>
                /\ ~IsX86Host(req[r].hostArch)
                /\ ~IsUnknownHost(req[r].hostArch)
                /\ Includes(CPU_CONFIGS[k].target, S_aarch64) => IsArmHost(req[r].hostArch)
                /\ Includes(CPU_CONFIGS[k].target, S_powerpc) => IsPowerHost(req[r].hostArch)
                /\ \/ Includes(CPU_CONFIGS[k].target, S_aarch64)
                   \/ Includes(CPU_CONFIGS[k].target, S_powerpc)

C4_Witness ==
    \E r \in Picking :
        /\ IsArmHost(req[r].hostArch)
        /\ "arm-cortex-a72" \in req[r].cpuItems
        /\ "power-pwr9" \notin req[r].cpuItems

----------------------------------------------------------------------------
(* C5, C6: the catalog.                                                    *)

\* The number of assignments generateCpuConfigs has made so far.
AssignmentsDone ==
    CASE genPc = "native" -> 0
      [] genPc = "x86"    -> genIdx
      [] genPc = "arm"    -> 1 + Len(X86List) + (genIdx - 1)
      [] genPc = "power"  -> 1 + Len(X86List) + Len(ArmList) + (genIdx - 1)
      [] OTHER            -> 1 + Len(X86List) + Len(ArmList) + Len(POWER_CPUS)

\* C5: catalog ids are unique: while the catalog is generated every
\* assignment adds a key (none overwrites), so the catalog has one entry per
\* listed cpu plus the native one; looking up the id of a listed cpu returns
\* the descriptor generated for that cpu; and once the catalog is assigned
\* no step of the command or of the analysis changes it.
C5_CatalogIdsUnique ==
    /\ genPc # "loaded" => Cardinality(DOMAIN configs) = AssignmentsDone
    /\ genPc = "loaded" =>
        /\ Cardinality(DOMAIN CPU_CONFIGS) =
               1 + Len(X86List) + Len(ArmList) + Len(POWER_CPUS)
        /\ Get(CPU_CONFIGS, "native").label = "Native (Auto-detect)"
        /\ \A i \in DOMAIN X86List :
               LET c == Get(CPU_CONFIGS, "x86-" \o X86List[i].cpu)
               IN  c.label = X86List[i].cpu /\ c.category = "x86-64 " \o X86List[i].category
        /\ \A i \in DOMAIN ArmList :
               LET c == Get(CPU_CONFIGS, "arm-" \o ArmList[i].cpu)
               IN  c.label = ArmList[i].cpu /\ c.category = "ARM " \o ArmList[i].category
        /\ \A i \in DOMAIN POWER_CPUS :
               LET c == Get(CPU_CONFIGS, "power-" \o POWER_CPUS[i])
               IN  c.label = POWER_CPUS[i] /\ c.category = "PowerPC"

C5_Witness ==
    /\ genPc = "loaded"
    /\ Cardinality(DOMAIN CPU_CONFIGS) = 119
    /\ \E r \in Reqs : req[r].pc = "returned" /\ req[r].outcome.kind = "result"

\* The descriptor invariant of one entry.
DescriptorOk(c) ==
    /\ Has(c, "label") /\ c.label # ""
    /\ Has(c, "category") /\ c.category # ""
    /\ TruthyFlag(c, "useNative") =>
           ~Has(c, "march") /\ ~Has(c, "mcpu") /\ ~Has(c, "target")
    /\ ~TruthyFlag(c, "useNative") =>
           /\ TruthyName(c, "march") \/ TruthyName(c, "mcpu")
           /\ ~Has(c, "useNative")

\* C6: every catalog entry has a non-empty label and family and exactly one
\* of {explicit cpu identifier, native flag}: the native entry has no
\* march/mcpu/target, every other entry has march or mcpu and no useNative.
C6_DescriptorInvariant ==
    /\ \A k \in DOMAIN configs : DescriptorOk(configs[k])
    /\ \A k \in DOMAIN CPU_CONFIGS : DescriptorOk(CPU_CONFIGS[k])

C6_Witness ==
    /\ genPc = "loaded"
    /\ TruthyFlag(CPU_CONFIGS["native"], "useNative")
    /\ TruthyName(CPU_CONFIGS["x86-skylake"], "march")
    /\ TruthyName(CPU_CONFIGS["power-pwr10"], "mcpu")

----------------------------------------------------------------------------
(* C7 - C10: rejection of invalid requests, workspace cleanup.             *)

\* The requests that have been started (by the command or by a call).
Started == { r \in Reqs : req[r].pc # "idle" }

\* The temporary directories request r created that still exist.
WorkspacesOf(r) == { d \in DOMAIN fs : fs[d].owner = r }

\* C7: a request whose source text is empty is rejected as invalid before
\* any process is spawned and before a temporary workspace is created, by
\* analyzeMca itself as well as by the command.
C7_EmptySourceRejectedFirst ==
    \A r \in Started :
        req[r].text = <<>> =>
            /\ log[r] = <<>>
            /\ WorkspacesOf(r) = {}
            /\ req[r].pc = "settled" => req[r].outcome.kind = "error"

\* C8: an analysis request whose target id is not a key of the catalog
\* fails at once with an error: no workspace is created, no compiler or
\* simulator is run, the file system is as it was.
C8_UnknownTargetFailsFirst ==
    \A r \in Started :
        (req[r].via = "call" /\ req[r].cpuKey \notin DOMAIN CPU_CONFIGS) =>
            /\ log[r] = <<>>
            /\ WorkspacesOf(r) = {}
            /\ req[r].pc = "settled" => req[r].outcome.kind = "error"

\* The positions of the log of r at which workspace removal was attempted,
\* and whether r acquired a workspace.
RmCalls(r) == { i \in DOMAIN log[r] : log[r][i].op = "rm" }
Acquired(r) == \E i \in DOMAIN log[r] : log[r][i] = Call("mkdtemp", TRUE)

\* C9: a request that acquired a workspace attempts its recursive removal
\* exactly once, as its last step, on every exit path (success, or a failed
\* write, compile, simulate or read); before that step no removal is
\* attempted, and once the removal succeeded no workspace of the finished
\* request exists.
C9_CleanupOnceAndLast ==
    \A r \in Reqs :
        /\ (req[r].pc = "settled" /\ Acquired(r)) =>
               /\ Cardinality(RmCalls(r)) = 1
               /\ log[r][Len(log[r])].op = "rm"
               /\ log[r][Len(log[r])].ok => WorkspacesOf(r) = {}
        /\ req[r].pc \notin {"settled", "returned"} => RmCalls(r) = {}
        /\ ~Acquired(r) => RmCalls(r) = {} /\ WorkspacesOf(r) = {}

C9_Witness ==
    \E r \in Reqs, other \in Reqs :
        /\ req[r].pc = "settled"
        /\ req[r].outcome = ErrorOf("clang")
        /\ log[r] = <<Call("mkdtemp", TRUE), Call("writeFile", TRUE),
                      Call("clang", FALSE), Call("rm", TRUE)>>
        /\ WorkspacesOf(r) = {}
        /\ WorkspacesOf(other) # {}

\* What the call is due to deliver when the finally block is entered: the
\* error of the first stage that failed, or the result.
FailedStages(r) == { i \in DOMAIN log[r] : log[r][i].op # "rm" /\ ~log[r][i].ok }
DueOutcome(r) ==
    IF FailedStages(r) = {}
    THEN req[r].pending
    ELSE ErrorOf(log[r][CHOOSE i \in FailedStages(r) : \A j \in FailedStages(r) : i <= j].op)

\* C10: a failed workspace removal is never escalated: when every earlier
\* stage succeeded the caller still receives the result, and when an
\* earlier stage failed the caller receives that stage's error.
C10_CleanupFailureNotEscalated ==
    \A r \in Reqs :
        (req[r].pc = "settled" /\ Call("rm", FALSE) \in { log[r][i] : i \in DOMAIN log[r] }) =>
            req[r].outcome = DueOutcome(r)

----------------------------------------------------------------------------
(* C11, C12: failures of the compiler and of the simulator.                *)

\* The operations request r has called so far, and whether one of them
\* failed.
OpsOf(r) == { log[r][i].op : i \in DOMAIN log[r] }
Failed(r, op) == \E i \in DOMAIN log[r] : log[r][i] = Call(op, FALSE)

\* C11: when the compiler invocation fails, the simulator is never invoked
\* for that request, no result is pending or returned, the removal of the
\* workspace is the next and last step, and the request fails with the
\* compiler's error.
C11_CompileFailureIsCompileError ==
    \A r \in Reqs :
        Failed(r, "clang") =>
            /\ "llvm-mca" \notin OpsOf(r)
            /\ req[r].pending.kind # "result"
            /\ req[r].outcome.kind # "result"
            /\ req[r].pc = "settled" =>
                   /\ log[r][Len(log[r])].op = "rm"
                   /\ req[r].outcome = ErrorOf("clang")

\* The stage of the request an operation belongs to.
StageOf(op) ==
    CASE op \in {"mkdtemp", "writeFile"} -> "workspaceSetup"
      [] op = "clang"                   -> "compile"
      [] op \in {"llvm-mca", "readFile"} -> "simulate"
      [] op = "rm"                      -> "cleanup"
      [] OTHER                          -> "none"

\* C12: every analysis ends in a complete result or in the error of the
\* stage that failed (workspaceSetup, compile, simulate or cleanup); a
\* simulator failure is reported as the simulator's error and never as a
\* result; the results panel is created only for a request that completed
\* with a result.
C12_ResultOrStagedError ==
    \A r \in Reqs :
        /\ req[r].pc \notin {"settled", "returned"} => req[r].outcome = NoValue
        /\ req[r].outcome # NoValue =>
               \/ /\ req[r].outcome.kind = "result"
                  /\ \A i \in DOMAIN log[r] : StageOf(log[r][i].op) # "none" => log[r][i].ok
               \/ /\ req[r].outcome.kind = "error"
                  /\ StageOf(req[r].outcome.thrownBy) # "none"
                  /\ Failed(r, req[r].outcome.thrownBy)
        /\ (Failed(r, "llvm-mca") /\ req[r].outcome # NoValue) =>
               req[r].outcome = ErrorOf("llvm-mca")
        /\ (\E i \in DOMAIN req[r].shown : req[r].shown[i] = "panel") =>
               req[r].outcome.kind = "result"

----------------------------------------------------------------------------
(* C13 - C15, C20: the report parser.                                      *)

\* The requests whose report has been parsed: the simulator succeeded, the
\* assembly was read back and the object to return was built.
Parsed == { r \in Reqs : req[r].pending.kind = "result" }

\* The value of the first line of lines that is a field of the label.
IsField(line, label, fields) == \E f \in fields : line = FieldText(label, f)
FirstField(lines, label, fields) ==
    LET at == { i \in DOMAIN lines : IsField(lines[i], label, fields) }
        first == CHOOSE i \in at : \A j \in at : i <= j
    IN  (CHOOSE f \in fields : lines[first] = FieldText(label, f)).value

\* C13: for a report with a 'Total Cycles:' integer field and a 'Block
\* RThroughput:' decimal field, latency is exactly the digits of the first
\* Total Cycles field and throughput exactly the decimal text of the first
\* Block RThroughput field, whatever fields follow.
C13_FirstOccurrenceOfSummaryFields ==
    \A r \in Parsed :
        LET lines == req[r].report.summary
        IN  /\ (\E i \in DOMAIN lines : IsField(lines[i], S_TotalCycles, CyclesFields)) =>
                   req[r].pending.latency = FirstField(lines, S_TotalCycles, CyclesFields)
            /\ (\E i \in DOMAIN lines : IsField(lines[i], S_BlockRThroughput, RThroughputFields)) =>
                   req[r].pending.throughput =
                       FirstField(lines, S_BlockRThroughput, RThroughputFields)

C13_Witness ==
    \E r \in Reqs :
        /\ req[r].pc = "settled"
        /\ req[r].outcome.kind = "result"
        /\ req[r].report.summary =
               <<FieldText(S_BlockRThroughput, Field(1, <<"3", ".", "5">>)),
                 FieldText(S_TotalCycles, Field(1, <<"4", "2">>)),
                 FieldText(S_TotalCycles, Field(6, <<"0">>))>>
        /\ req[r].outcome.latency = <<"4", "2">>
        /\ req[r].outcome.throughput = <<"3", ".", "5">>

\* The lines under the table header that are rows of an instruction, and
\* the instruction a row was printed for.
IsRow(line) == \E row \in InstrRows : line = RowText(row)
RowOf(line) == CHOOSE row \in InstrRows : line = RowText(row)
RowsOf(report) == IF report.info THEN SelectSeq(report.rows, IsRow) ELSE <<>>

C20_RowFieldsComplete ==
    \A r \in Parsed :
        LET rows == RowsOf(req[r].report)
            instructions == req[r].pending.instructions
        IN  \A k \in DOMAIN instructions :
                k \in DOMAIN rows =>
                    /\ instructions[k].uops = RowOf(rows[k]).uops
                    /\ instructions[k].latency = RowOf(rows[k]).latency
                    /\ instructions[k].throughput = RowOf(rows[k]).throughput
                    /\ instructions[k].instruction = Trim(RowOf(rows[k]).text)

----------------------------------------------------------------------------
(* C16: the cpu identifier given to the simulator.                         *)

\* The cpus the catalog lists.
ListedCpus ==
    { X86List[i].cpu : i \in DOMAIN X86List } \cup { ArmList[i].cpu : i \in DOMAIN ArmList }
        \cup { POWER_CPUS[i] : i \in DOMAIN POWER_CPUS }

\* C16: whenever the simulator is invoked for a catalog entry, its command
\* line carries -mcpu= with a non-empty identifier: for a listed cpu the
\* identifier the compiler was given (as -march= for x86 entries, as -mcpu=
\* for ARM and PowerPC entries), for the native entry 'native' (and the
\* compiler -march=native).
C16_SimulatorGetsCompilerCpu ==
    \A r \in Reqs :
        ("llvm-mca" \in OpsOf(r) /\ req[r].cpuKey \in DOMAIN CPU_CONFIGS) =>
            IF req[r].cpuKey = "native"
            THEN /\ req[r].clangCmd.cpuFlag = "-march=native"
                 /\ req[r].mcaCmd.mcpu = "-mcpu=native"
            ELSE \E cpu \in ListedCpus \ {"", "undefined"} :
                    /\ req[r].mcaCmd.mcpu = "-mcpu=" \o cpu
                    /\ \/ /\ req[r].cpuKey = "x86-" \o cpu
                          /\ req[r].clangCmd.cpuFlag = "-march=" \o cpu
                       \/ /\ req[r].cpuKey \in {"arm-" \o cpu, "power-" \o cpu}
                          /\ req[r].clangCmd.cpuFlag = "-mcpu=" \o cpu

C16_Witness ==
    \E r \in Reqs :
        /\ req[r].pc = "settled"
        /\ req[r].cpuKey = "arm-cortex-a72"
        /\ Call("llvm-mca", TRUE) \in { log[r][i] : i \in DOMAIN log[r] }
        /\ req[r].clangCmd.cpuFlag = "-mcpu=cortex-a72"
        /\ req[r].mcaCmd.mcpu = "-mcpu=cortex-a72"

----------------------------------------------------------------------------
(* C17 - C19: concurrent requests, determinism, stage order.               *)

\* The requests that hold a workspace: between the creation of the
\* directory and the end of its removal.
Live == { r \in Reqs : req[r].pc \in {"writeFile", "clang", "llvm-mca", "readFile", "rm"} }

\* What request r is due when it runs alone with the same answers of the
\* file system and the tools: the removal error, else the error of its
\* first failed stage, else the object built from its own source text,
\* its own target and the report printed for it.
OutcomeAlone(r) ==
    LET config == Get(CPU_CONFIGS, req[r].cpuKey)
    IN  IF config = Undefined THEN ErrorOf("lookup")
        ELSE IF Failed(r, "rm") THEN ErrorOf("rm")
        ELSE IF FailedStages(r) # {} THEN DueOutcome(r)
        ELSE ResultOf(r, AssemblyOf(CodeToCompile(config, req[r].text),
                                    ClangCmd(config, req[r].tmpDir)))

\* C17: in every interleaving of concurrent requests, each live request has
\* a workspace of its own (no two live requests share a directory, hence no
\* source or assembly file path), the files in it are the ones it wrote
\* itself, no other request's cleanup removed it, the catalog is as it was
\* loaded, and each settled request has the outcome it has when run alone.
C17_RequestsIsolated ==
    /\ CPU_CONFIGS = BuiltCatalog
    /\ \A r \in Live :
        /\ \A q \in Live \ {r} : req[q].tmpDir # req[r].tmpDir
        /\ req[r].tmpDir \in DOMAIN fs
        /\ fs[req[r].tmpDir].owner = r
        /\ \A name \in DOMAIN fs[req[r].tmpDir].files :
               fs[req[r].tmpDir].files[name] =
                   LET config == Get(CPU_CONFIGS, req[r].cpuKey)
                       source == CodeToCompile(config, req[r].text)
                   IN  IF name = "input.cpp" THEN source
                       ELSE AssemblyOf(source, ClangCmd(config, req[r].tmpDir))
    /\ \A r \in Reqs : req[r].pc = "settled" => req[r].outcome = OutcomeAlone(r)

C17_Witness ==
    \E r \in Reqs, q \in Reqs :
        /\ r # q
        /\ req[r].pc = "rm" /\ req[r].pending.kind = "result"
        /\ req[q].pc = "llvm-mca"
        /\ req[r].clangCmd.cFile # req[q].clangCmd.cFile
        /\ req[r].mcaCmd.asmFile # req[q].mcaCmd.asmFile

\* C18: two runs of the same request (same source text, same target id),
\* with a compiler and a simulator that are functions of the text and flags
\* they are given, build equal objects: the same assembly text, the same
\* instruction records, the same latency and throughput, whichever
\* directories the runs were given.
C18_SameRequestSameResult ==
    \A r \in Parsed, q \in Parsed :
        (req[r].text = req[q].text /\ req[r].cpuKey = req[q].cpuKey) =>
            /\ req[r].pending.assembly = req[q].pending.assembly
            /\ req[r].pending.instructions = req[q].pending.instructions
            /\ req[r].pending.latency = req[q].pending.latency
            /\ req[r].pending.throughput = req[q].pending.throughput

C18_Witness ==
    \E r \in Reqs, q \in Reqs :
        /\ req[r].pc = "settled" /\ req[r].outcome.kind = "result"
        /\ req[q].pc = "settled" /\ req[q].outcome.kind = "result"
        /\ req[r].tmpDir # req[q].tmpDir
        /\ req[r].text = req[q].text /\ req[r].cpuKey = req[q].cpuKey
        /\ req[r].outcome = req[q].outcome
        /\ req[r].outcome.latency = <<"4", "2">>

\* The stages of the try block in the order of the code, and the stage
\* that follows a stage.
StageOrder == <<"mkdtemp", "writeFile", "clang", "llvm-mca", "readFile", "rm">>
StageAfter(op) == StageOrder[1 + CHOOSE n \in DOMAIN StageOrder : StageOrder[n] = op]

\* C19: within one request nothing is retried and the stages run in a
\* fixed order: each of mkdtemp, writeFile, clang, llvm-mca, readFile and
\* rm is called at most once; a stage is called only directly after the
\* stage before it succeeded; after a failed stage only rm is called, and
\* nothing after rm or after a failed mkdtemp; the report is parsed only
\* after the simulator succeeded.
C19_NoRetriesFixedOrder ==
    \A r \in Reqs :
        /\ \A i \in DOMAIN log[r], j \in DOMAIN log[r] :
               i # j => log[r][i].op # log[r][j].op
        /\ \A i \in DOMAIN log[r] :
               IF i = 1
               THEN log[r][i].op = "mkdtemp"
               ELSE /\ log[r][i - 1].op \notin {"rm"}
                    /\ log[r][i - 1].ok => log[r][i].op = StageAfter(log[r][i - 1].op)
                    /\ ~log[r][i - 1].ok =>
                           log[r][i - 1].op # "mkdtemp" /\ log[r][i].op = "rm"
        /\ r \in Parsed =>
               \E i \in DOMAIN log[r], j \in DOMAIN log[r] :
                   /\ i < j
                   /\ log[r][i] = Call("llvm-mca", TRUE)
                   /\ log[r][j] = Call("readFile", TRUE)

C19_Witness ==
    \E r \in Reqs, q \in Reqs :
        /\ req[r].pc = "settled" /\ req[q].pc = "settled"
        /\ log[r] = <<Call("mkdtemp", TRUE), Call("writeFile", TRUE), Call("clang", TRUE),
                      Call("llvm-mca", TRUE), Call("readFile", TRUE), Call("rm", TRUE)>>
        /\ log[q] = <<Call("mkdtemp", TRUE), Call("writeFile", TRUE), Call("clang", TRUE),
                      Call("llvm-mca", FALSE), Call("rm", TRUE)>>

----------------------------------------------------------------------------
(* C21, C22: the parser on reports in another layout.                      *)

\* A well-formed number: digits with at most one decimal point and at least
\* one digit.
WellFormedNumber(s) ==
    /\ \A i \in DOMAIN s : s[i] \in DigitsDot
    /\ Cardinality({ i \in DOMAIN s : s[i] = "." }) <= 1
    /\ \E i \in DOMAIN s : s[i] \in Digits

\* C21: every numeric field the parser emits is a well-formed number: the
\* latency and the throughput of every instruction record, and the block
\* throughput unless it is 'N/A'; no report makes it emit '.' or '1.2.3'.
C21_NumericFieldsWellFormed ==
    \A r \in Parsed :
        /\ req[r].pending.throughput # S_NA => WellFormedNumber(req[r].pending.throughput)
        /\ \A k \in DOMAIN req[r].pending.instructions :
               /\ WellFormedNumber(req[r].pending.instructions[k].latency)
               /\ WellFormedNumber(req[r].pending.instructions[k].throughput)

\* C22: every instruction record comes from a line of the instruction
\* table: a line between the column header and the next view of the report,
\* whichever view that is; no line before the header and no line of a later
\* view yields a record.
C22_RecordsOnlyFromTable ==
    \A r \in Parsed :
        \A k \in DOMAIN req[r].pending.instructions :
            /\ req[r].report.info
            /\ \E i \in DOMAIN req[r].report.rows, row \in InstrRows \cup OddRows :
                   /\ req[r].report.rows[i] = RowText(row)
                   /\ req[r].pending.instructions[k].uops = row.uops
                   /\ req[r].pending.instructions[k].latency = row.latency
                   /\ req[r].pending.instructions[k].throughput = row.throughput

----------------------------------------------------------------------------
(* C23, C24: the compiler command and the composed source file.            *)

\* The requests whose compiler command has been built, for a catalog
\* target.
Compiling == { r \in Reqs : req[r].clangCmd # NoValue /\ req[r].cpuKey \in DOMAIN CPU_CONFIGS }

\* The cpu a catalog id was generated for.
CpuOfKey(key) ==
    CHOOSE cpu \in ListedCpus : key \in {"x86-" \o cpu, "arm-" \o cpu, "power-" \o cpu}

\* C23: for every catalog target the compiler command is 'clang -S -O2'
\* with one architecture flag (-march=<cpu> for an x86 entry, -mcpu=<cpu>
\* for an ARM or PowerPC entry, -march=native for the native entry); it has
\* --target=<triple> exactly when the entry has a cross triple, and
\* -ffreestanding -nostdlibinc exactly when it has --target.
C23_CompilerCommandShape ==
    \A r \in Compiling :
        LET config == CPU_CONFIGS[req[r].cpuKey]
            cmd == req[r].clangCmd
        IN  /\ cmd.fixed = "clang -S -O2"
            /\ cmd.cpuFlag =
                   IF req[r].cpuKey = "native" THEN "-march=native"
                   ELSE IF req[r].cpuKey \in X86Keys THEN "-march=" \o CpuOfKey(req[r].cpuKey)
                   ELSE "-mcpu=" \o CpuOfKey(req[r].cpuKey)
            /\ cmd.targetFlag # <<>> <=> Has(config, "target")
            /\ Has(config, "target") => cmd.targetFlag = S_targetFlag \o config.target
            /\ cmd.compileFlagsStr \in {"", "-ffreestanding -nostdlibinc"}
            /\ cmd.compileFlagsStr = "-ffreestanding -nostdlibinc" <=> cmd.targetFlag # <<>>

C23_Witness ==
    \E r \in Reqs :
        /\ req[r].pc = "settled"
        /\ req[r].cpuKey = "power-pwr9"
        /\ Call("clang", TRUE) \in { log[r][i] : i \in DOMAIN log[r] }
        /\ req[r].clangCmd.cpuFlag = "-mcpu=pwr9"
        /\ req[r].clangCmd.targetFlag = S_targetFlag \o TargetPower
        /\ req[r].clangCmd.compileFlagsStr = "-ffreestanding -nostdlibinc"

\* The requests whose source file is in their workspace, for a catalog
\* target.
Written ==
    { r \in Reqs : /\ req[r].cpuKey \in DOMAIN CPU_CONFIGS
                   /\ req[r].tmpDir \in DOMAIN fs
                   /\ "input.cpp" \in DOMAIN fs[req[r].tmpDir].files }

\* C24: for every catalog target and source text the source file is, in
\* this order: the stddef/stdint includes exactly when the target has no
\* cross triple, one intrinsics header (arm_neon.h for an ARM entry,
\* altivec.h for a PowerPC entry, immintrin.h for every other entry), the
\* guarded unsigned-type aliases, and the source text unchanged at the end.
C24_ComposedSourceFile ==
    \A r \in Written :
        LET key == req[r].cpuKey
            file == fs[req[r].tmpDir].files["input.cpp"]
            cross == key \in ArmKeys \cup PowerKeys
        IN  /\ cross <=> Has(CPU_CONFIGS[key], "target")
            /\ file = (IF cross THEN <<>> ELSE H_Std)
                         \o (IF key \in ArmKeys THEN H_Neon
                             ELSE IF key \in PowerKeys THEN H_Altivec
                             ELSE H_Immintrin)
                         \o H_Typedefs
                         \o req[r].text
            /\ SubSeq(file, Len(file) - Len(req[r].text) + 1, Len(file)) = req[r].text
            /\ Includes(file, H_Std) <=> ~cross
            /\ Cardinality({ h \in {H_Neon, H_Altivec, H_Immintrin} : Includes(file, h) }) = 1

C24_Witness ==
    \E r \in Reqs :
        /\ req[r].pc = "clang"
        /\ req[r].cpuKey = "arm-cortex-a72"
        /\ req[r].text = <<" ">>
        /\ fs[req[r].tmpDir].files["input.cpp"] = H_Neon \o H_Typedefs \o <<" ">>

----------------------------------------------------------------------------
(* C26: host detection when the query fails.                               *)

\* C26: host detection never fails: when `uname -m` fails the handler goes
\* on with a host string of no recognised family, and the targets offered
\* are then the native entry only, whatever the machine is.
C26_FailedQueryOffersNativeOnly ==
    \A r \in Reqs :
        Failed(r, "uname") =>
            /\ req[r].pc # "uname"
            /\ req[r].outcome.kind # "error" \/ req[r].pc \in {"settled", "returned"}
            /\ IsUnknownHost(req[r].hostArch)
            /\ req[r].pc = "pick" => req[r].cpuItems = {"native"}

----------------------------------------------------------------------------
(* C25: the results view.                                                  *)

\* The requests whose results view is open, and a record as a row of the
\* table shows it.
Viewing == { r \in Reqs : req[r].view # NoValue }
ShownAs(instr) == [instr EXCEPT !.instruction = EscapeHtml(instr.instruction)]

\* b has the elements of a, each as often.
IsPermutation(a, b) ==
    /\ Len(a) = Len(b)
    /\ \A i \in DOMAIN a :
           Cardinality({ j \in DOMAIN a : a[j] = a[i] }) = Cardinality({ j \in DOMAIN b : b[j] = a[i] })

\* C25: in the results view the saved original order is always the records
\* as parsed, whatever was clicked; the rows shown are always a permutation
\* of the parsed records; and whenever the last click was on 'Assembly
\* Order', after any clicks on column headers, the rows are the records in
\* the order 1..n as parsed and no sort is in effect.
C25_AssemblyOrderRestorable ==
    \A r \in Viewing :
        LET parsed == req[r].outcome.instructions
            view == req[r].view
        IN  /\ view.originalOrder = parsed
            /\ IsPermutation(view.tbody, [k \in DOMAIN parsed |-> ShownAs(parsed[k])])
            /\ IsPermutation(view.instructions, parsed)
            /\ (log[r] # <<>> /\ log[r][Len(log[r])].op = ClickOf("resetBtn")) =>
                   /\ view.tbody = [k \in DOMAIN parsed |-> ShownAs(parsed[k])]
                   /\ \A k \in DOMAIN view.tbody : view.tbody[k].order = k
                   /\ view.currentSort = UnsortedState
                   /\ view.resetActive

C25_Witness ==
    \E r \in Viewing :
        /\ Len(req[r].outcome.instructions) = 3
        /\ Len(log[r]) >= 3
        /\ log[r][Len(log[r]) - 2] = Call(ClickOf("latency"), TRUE)
        /\ log[r][Len(log[r]) - 1] = Call(ClickOf("latency"), TRUE)
        /\ log[r][Len(log[r])] = Call(ClickOf("resetBtn"), TRUE)
        /\ req[r].view.tbody[1].latency = <<"5">>
        /\ req[r].view.tbody[3].latency = <<"6">>

----------------------------------------------------------------------------
(* C27, C28: the intrinsic-name cache.                                     *)

\* The calls of getIntrinsics made before any call had resolved.
Early == { c \in Calls : call[c].pc # "idle" /\ call[c].seen = {} }

\* C27: once a call of getIntrinsics has resolved, every call made later
\* resolves to the list that call resolved to, the empty list included, and
\* does not call fetchIntrinsicNames.
C27_LaterCallsServedFromStore ==
    \A c \in Resolved :
        \A first \in call[c].seen :
            /\ ~call[c].invoked
            /\ call[c].result = call[first].result

\* C28: the calls of getIntrinsics made before the first one resolved send
\* at most one network request between them and resolve to the same list.
C28_OneRequestUnderConcurrency ==
    /\ Cardinality({ c \in Early : call[c].requested }) <= 1
    /\ \A c \in Early \cap Resolved :
           \A d \in Early \cap Resolved : call[c].result = call[d].result

====
